---- MODULE Spec2Model ----
(***************************************************************************)
(* The osquery watchdog: the Watcher registry, the WatcherRunner loop      *)
(* (watch / isChildSane / createWorker / createExtension) and the limit    *)
(* table, modelled from osquery/core/watcher.cpp (src/unnamed/part_001).   *)
(***************************************************************************)
EXTENDS Integers, Sequences, FiniteSets, TLC

(***************************************************************************)
(* Bounds of the model.                                                    *)
(***************************************************************************)
\* Extension paths registered with addExtensionPath are 1..NumPaths.
NumPaths == 1
\* Process ids handed out by launchWorker / launchExtension are 1..MaxPid.
MaxPid == 3
\* getUnixTime() when WatcherRunner::start is entered.
StartTime == 100
\* The model follows the clock for this many seconds after StartTime.
TimeSpan == 26
\* The do-while loop of start() is followed for this many jumps back.
MaxLoops == 2
\* Watcher::workerRestarted is followed up to this count.
MaxRestarts == 2
\* The run length kept in the history saturates here.
HistCap == 4
\* CPU samples are multiples of the per-check budget, up to this factor.
MaxSpike == 2
\* getWorkerLimit is called with levels, and flag values, up to this one.
MaxLevel == 5

MaxTime == StartTime + TimeSpan

Max(a, b) == IF a >= b THEN a ELSE b

Min(a, b) == IF a <= b THEN a ELSE b

(***************************************************************************)
(* Exit codes and the limit table.                                         *)
(***************************************************************************)
EXIT_SUCCESS == 0

EXIT_FAILURE == 1

\* The project-wide "give up" exit code; its value is set outside watcher.cpp.
EXIT_CATASTROPHIC == 78

LimitTypes ==
  {"MEMORY_LIMIT", "UTILIZATION_LIMIT", "RESPAWN_LIMIT", "RESPAWN_DELAY",
   "LATENCY_LIMIT", "INTERVAL"}

kWatchdogLimits ==
  [MEMORY_LIMIT      |-> <<80, 50, 30, 1000>>,
   UTILIZATION_LIMIT |-> <<90, 80, 60, 1000>>,
   RESPAWN_LIMIT     |-> <<20, 20, 20, 5>>,
   RESPAWN_DELAY     |-> <<5, 5, 5, 1>>,
   LATENCY_LIMIT     |-> <<12, 6, 3, 1>>,
   INTERVAL          |-> <<3, 3, 3, 1>>]

\* Lines 436-439 without the clamp of levels above 3: the first column is
\* taken for them.
getWorkerLimitNoClamp(name, level) ==
  IF name \notin LimitTypes THEN 0
  ELSE IF level > 3 THEN kWatchdogLimits[name][1]
  ELSE kWatchdogLimits[name][level + 1]

\* getWorkerLimit(name, level) for a level that was passed or read from the
\* watchdog_level flag (0 <= level): columns 0..3, anything above is the last.
getWorkerLimit(name, level) ==
  IF name \notin LimitTypes THEN 0
  ELSE IF level > 3 THEN kWatchdogLimits[name][Len(kWatchdogLimits[name])]
  ELSE kWatchdogLimits[name][level + 1]

MiB == 1024 * 1024

(***************************************************************************)
(* size_t arithmetic.  Every quantity of the model is far below 2^31, so   *)
(* a 64-bit unsigned difference a - b with a < b is 2^64 - (b - a), which  *)
(* is larger than any limit and any stored value of the model.             *)
(***************************************************************************)
\* (a - b) > c, all operands size_t.
UnsignedDiffGreater(a, b, c) == IF a >= b THEN a - b > c ELSE TRUE

\* a > (b - c), all operands size_t.
GreaterThanUnsignedDiff(a, b, c) == IF b >= c THEN a > b - c ELSE FALSE

(***************************************************************************)
(* PerformanceState and the sanity evaluator (WatcherRunner::isChildSane). *)
(***************************************************************************)
ZeroState ==
  [sustained_latency |-> 0, user_time |-> 0, system_time |-> 0,
   initial_footprint |-> 0, last_respawn_time |-> 0]

\* A reset that forgets to store the respawn time.
ResetCountersKeepRespawn(state, respawn_time) ==
  [state EXCEPT !.sustained_latency = 0, !.user_time = 0, !.system_time = 0]

\* Watcher::resetWorkerCounters / resetExtensionCounters applied to a state.
ResetCounters(state, respawn_time) ==
  [state EXCEPT !.sustained_latency = 0, !.user_time = 0, !.system_time = 0,
                !.last_respawn_time = respawn_time]

\* iv: the check interval in seconds, at least 1.
Iv(level) == Max(getWorkerLimit("INTERVAL", level), 1)

\* The columns of a process row in the order the try block reads them.
RowColumns == <<"parent", "user_time", "system_time", "resident_size">>

ColumnIndex(c) == CHOOSE i \in 1..Len(RowColumns) : RowColumns[i] = c

\* Column c was read before the conversion of row.bad threw (bad = "none":
\* nothing throws).
WasRead(row, c) ==
  row.bad = "none" \/ ColumnIndex(c) < ColumnIndex(row.bad)

\* The locals parent, user_time, system_time, footprint after the try block.
ParseRow(row, level) ==
  [parent      |-> IF WasRead(row, "parent") THEN row.parent ELSE "unread",
   user_time   |-> IF WasRead(row, "user_time")
                     THEN row.user_time \div Iv(level) ELSE 0,
   system_time |-> IF WasRead(row, "system_time")
                     THEN row.system_time \div Iv(level) ELSE 0,
   footprint   |-> IF WasRead(row, "resident_size") THEN row.resident_size ELSE 0,
   threw       |-> row.bad # "none"]

\* The comparison of lines 251-252 for one of the two counters.
CpuExceeded(sample, previous, level) ==
  UnsignedDiffGreater(sample, previous, getWorkerLimit("UTILIZATION_LIMIT", level))

\* The child's PerformanceState after the locked block of isChildSane.
SaneUpdate(state, row, level) ==
  LET p  == ParseRow(row, level)
      s0 == IF p.threw THEN [state EXCEPT !.sustained_latency = 0] ELSE state
      exceeded == \/ CpuExceeded(p.user_time, s0.user_time, level)
                  \/ CpuExceeded(p.system_time, s0.system_time, level)
  IN  [s0 EXCEPT
         !.sustained_latency = IF exceeded THEN s0.sustained_latency + 1 ELSE 0,
         !.user_time = p.user_time,
         !.system_time = p.system_time,
         !.initial_footprint =
            IF s0.initial_footprint = 0 THEN p.footprint ELSE s0.initial_footprint]

\* The local footprint after lines 272-276, from the updated state.
MeasuredFootprint(state, row, level) ==
  LET fp == ParseRow(row, level).footprint
  IN  IF fp < state.initial_footprint THEN 0 ELSE fp - state.initial_footprint

\* Line 288-289 with > in place of >=.
LatencyTripStrict(sustained_latency, level) ==
  /\ sustained_latency > 0
  /\ sustained_latency * Iv(level) > getWorkerLimit("LATENCY_LIMIT", level)

\* Line 288-289 with the count of checks compared, not the seconds.
LatencyTripNoInterval(sustained_latency, level) ==
  /\ sustained_latency > 0
  /\ sustained_latency >= getWorkerLimit("LATENCY_LIMIT", level)

\* Line 288-289.
LatencyTrip(sustained_latency, level) ==
  /\ sustained_latency > 0
  /\ sustained_latency * Iv(level) >= getWorkerLimit("LATENCY_LIMIT", level)

\* Line 295.
MemoryTrip(footprint, level) ==
  /\ footprint > 0
  /\ footprint > getWorkerLimit("MEMORY_LIMIT", level) * MiB

\* What isChildSane decides from its locals once the lock is released:
\* "foreign" (reset, return true), "latency" / "memory" (return false),
\* "healthy" (return true).
SaneVerdict(parent, sustained_latency, footprint, level) ==
  IF parent # "supervisor" THEN "foreign"
  ELSE IF LatencyTrip(sustained_latency, level) THEN "latency"
  ELSE IF MemoryTrip(footprint, level) THEN "memory"
  ELSE "healthy"

(***************************************************************************)
(* State.                                                                  *)
(***************************************************************************)
VARIABLES
  \* WatcherRunner and flags
  pc,                 \* where the watcher thread stands in WatcherRunner::start
  loops,              \* how often the do-while loop has jumped back
  use_worker_,        \* WatcherRunner::use_worker_
  watchdog_level,     \* FLAGS_watchdog_level
  \* the Watcher singleton
  worker_,            \* shared_ptr: <<>> null, <<0>> invalid handle, <<pid>>
  state_,             \* the worker's PerformanceState
  extensions_,        \* path -> handle (0: invalid, else a pid)
  extension_states_,  \* path -> PerformanceState (path 0 is the "" entry)
  worker_status_,     \* last stored exit status
  worker_restarts_,   \* Watcher::workerRestartCount()
  fates_bound_,       \* Watcher::fatesBound()
  locked,             \* the watcher thread holds a WatcherLocker
  \* the host and the operating system
  interrupted_,       \* InternalRunnable::interrupted()
  now,                \* getUnixTime()
  procs,              \* pid -> [st, code]: the child processes
  env_extensions,     \* OSQUERY_EXTENSIONS is set in the environment
  shutdown_,          \* <<>> or <<code>>: Initializer::requestShutdown(code)
  \* locals of start / watch / isChildSane
  child,              \* the handle passed to watch
  cur,                \* 0: watching the worker, else the extension path
  todo,               \* extension paths the for loop has not reached yet
  failing_extensions,
  result,             \* ProcessState returned by checkChildProcessStatus
  status,             \* the exit code it returned
  row,                \* rows[0] of the processes query
  probe,              \* isChildSane's locals sustained_latency, footprint, parent
  verdict,            \* what the last isChildSane call decided
  \* history of the run (read by the properties only)
  cpu_hist,           \* checks of the current worker instance
  mem_hist,           \* resident sizes seen by the current instance
  observed_exit,      \* the child exits watch has seen (NoExit at first)
  respawn_pending,    \* "exit" / "kill": the worker is gone and createWorker
                      \* has not been called for it yet; "none" otherwise
  fates_seen,         \* the watcher thread has read fatesBound() as true
  launch_count        \* path -> launches of the extension so far (saturating)

vars ==
  <<pc, loops, use_worker_, watchdog_level, worker_, state_, extensions_,
    extension_states_, worker_status_, worker_restarts_, fates_bound_, locked,
    interrupted_, now, procs, env_extensions, shutdown_, child, cur, todo,
    failing_extensions, result, status, row, probe, verdict, cpu_hist,
    mem_hist, observed_exit, respawn_pending, fates_seen, launch_count>>

config == <<loops, use_worker_, watchdog_level>>

registry ==
  <<worker_, state_, extensions_, extension_states_, worker_status_,
    worker_restarts_>>

host == <<interrupted_, now, procs, env_extensions, shutdown_>>

locals == <<child, cur, todo, failing_extensions, result, status, row, probe>>

history ==
  <<cpu_hist, mem_hist, observed_exit, respawn_pending, fates_seen,
    launch_count>>

Paths == 1..NumPaths

Pids == 1..MaxPid

ExitCodes == {EXIT_SUCCESS, EXIT_FAILURE, EXIT_CATASTROPHIC}

\* The value worker_status_ is constructed with.  The declaration is in
\* watcher.h: the documented sentinel is 0; a sentinel that is no exit code
\* (-1) is followed as well.
InitialWorkerStatus == {0, -1}

NoProc == [st |-> "none", code |-> 0]

NoRow ==
  [parent |-> "unread", user_time |-> 0, system_time |-> 0,
   resident_size |-> 0, bad |-> "none"]

NoProbe == [sustained_latency |-> 0, footprint |-> 0, parent |-> "unread"]

NoCpuHist == [run |-> 0, all |-> TRUE]

NoMemHist == [base |-> 0, fresh |-> FALSE, growth |-> 0]

\* worker: <<>> or <<code>>, the last exit watch saw for the worker;
\* extension: watch has seen an extension exit.
NoExit == [worker |-> <<>>, extension |-> FALSE]

(***************************************************************************)
(* Inputs: the rows the processes table can return for a child.            *)
(***************************************************************************)
\* Cumulative CPU ticks: just at and just above the per-check budget.
CpuSamples(level) ==
  LET iv == Iv(level)
      limit == getWorkerLimit("UTILIZATION_LIMIT", level)
  IN  {0, iv * limit} \cup {k * iv * (limit + 1) : k \in 1..MaxSpike}

\* The second counter, system_time: idle, or one step above the budget.
SystemSamples(level) ==
  {0, Iv(level) * (getWorkerLimit("UTILIZATION_LIMIT", level) + 1)}

BaseResident == 10 * MiB

\* Resident sizes: the base, and the base grown to the limit and past it.
ResidentSamples(level) ==
  LET limit == getWorkerLimit("MEMORY_LIMIT", level) * MiB
  IN  {BaseResident, BaseResident + limit, BaseResident + limit + 1}

BadColumns == {"none", "parent", "user_time", "system_time", "resident_size"}

\* Rows whose columns all convert, for a child of the watcher.
CleanRows(level) ==
  [parent : {"supervisor"},
   user_time : CpuSamples(level),
   system_time : SystemSamples(level),
   resident_size : ResidentSamples(level),
   bad : {"none"}]

\* Rows on which the conversion of one column throws.  The columns the try
\* block does not reach are written as in NoRow: they are never read.
ThrowingRows(level) ==
  {[NoRow EXCEPT !.bad = "parent"]}
    \cup {[NoRow EXCEPT !.parent = "supervisor", !.bad = "user_time"]}
    \cup {[NoRow EXCEPT !.parent = "supervisor", !.user_time = u,
                        !.bad = "system_time"] : u \in CpuSamples(level)}
    \cup {[NoRow EXCEPT !.parent = "supervisor", !.user_time = u,
                        !.system_time = t, !.bad = "resident_size"] :
            u \in CpuSamples(level), t \in SystemSamples(level)}

\* Rows of a process that is not the watcher's child (a reused pid).
ForeignRows(level) ==
  {[NoRow EXCEPT !.parent = "other", !.resident_size = m] :
     m \in ResidentSamples(level)}

\* The rows the evaluator is followed on.
SanityRows(level) ==
  CleanRows(level) \cup ThrowingRows(level) \cup ForeignRows(level)

\* The rows followed inside the watch loop, a coarser choice.  For the
\* worker: every column converts, the CPU samples are whole multiples of
\* one over-budget step, the resident size is the base or past the limit.
WorkerRows(level) ==
  {r \in CleanRows(level) \cup ForeignRows(level) :
     /\ r.system_time = 0
     /\ r.user_time \in
          {k * Iv(level) * (getWorkerLimit("UTILIZATION_LIMIT", level) + 1) :
             k \in 0..MaxSpike}
     /\ r.resident_size \in
          {BaseResident,
           BaseResident + getWorkerLimit("MEMORY_LIMIT", level) * MiB + 1}
     /\ r.bad = "none"}

\* For an extension: an idle process of the base size.
ExtensionRows(level) ==
  {r \in CleanRows(level) \cup ForeignRows(level) :
     /\ r.system_time = 0
     /\ r.user_time = 0
     /\ r.resident_size = BaseResident
     /\ r.bad = "none"}

LoopRows(level, path) ==
  IF path = 0 THEN WorkerRows(level) ELSE ExtensionRows(level)

(***************************************************************************)
(* History bookkeeping.                                                    *)
(***************************************************************************)
\* The difference of a sample to the previous one exceeds the limit, in
\* plain integer arithmetic.
TrueDeltaExceeds(sample, previous, level) ==
  sample - previous > getWorkerLimit("UTILIZATION_LIMIT", level)

\* cpu_hist after a check of a child whose state before the check is `state`:
\* run counts the checks in a row whose sample was truly above the previous
\* one by more than the limit (a row that throws starts the count afresh, as
\* line 247 does); all tells that every check of the instance was one.
CpuHistAfter(h, state, r, level) ==
  LET p == ParseRow(r, level)
      before == IF p.threw THEN 0 ELSE h.run
      exceeded == \/ TrueDeltaExceeds(p.user_time, state.user_time, level)
                  \/ TrueDeltaExceeds(p.system_time, state.system_time, level)
  IN  [run |-> IF exceeded THEN Min(before + 1, HistCap) ELSE 0,
       all |-> h.all /\ exceeded /\ ~p.threw]

\* mem_hist after a check that read resident size r.resident_size.
MemHistAfter(h, r, level) ==
  LET fp == ParseRow(r, level).footprint
      base == IF h.base = 0 THEN fp ELSE h.base
  IN  [base   |-> base,
       fresh  |-> h.base = 0,
       growth |-> Max(0, fp - base)]

(***************************************************************************)
(* Registry helpers.                                                       *)
(***************************************************************************)
\* extension_states_[path], the entry being created when it is missing.
StateAt(path) ==
  IF path \in DOMAIN extension_states_ THEN extension_states_[path] ELSE ZeroState

\* extension_states_ after extension_states_[path] = state.
WithState(path, state) ==
  [q \in DOMAIN extension_states_ \cup {path} |->
     IF q = path THEN state ELSE extension_states_[q]]

\* Watcher::getExtensionPath: the first path whose handle equals the child,
\* 0 (the empty path) when there is none.
getExtensionPath(handle) ==
  LET owners == {q \in DOMAIN extensions_ : extensions_[q] = handle}
  IN  IF owners = {} THEN 0 ELSE CHOOSE q \in owners : \A o \in owners : q <= o

\* Lines 131-141 without the test of the map: the environment alone decides.
hasManagedExtensionsEnvOnly == env_extensions

\* Watcher::hasManagedExtensions.
hasManagedExtensions == Cardinality(DOMAIN extensions_) > 0 \/ env_extensions

\* The pids some handle of the registry refers to.
Referenced ==
  {extensions_[q] : q \in DOMAIN extensions_}
    \cup (IF worker_ = <<>> THEN {} ELSE {worker_[1]})

\* A pid the operating system can give to a new child.
FreePids == {n \in Pids : procs[n].st \in {"none", "gone"} /\ n \notin Referenced}

\* The model stops following a process once no handle refers to it.
Forget(ps, keep) ==
  [n \in Pids |-> IF n \in keep \/ ps[n].st = "none" THEN ps[n]
                  ELSE [st |-> "gone", code |-> 0]]

\* checkChildProcessStatus: what a non-blocking wait on the child can return.
\* A child the watcher launched and has not reaped is still running or has
\* exited with some code; for any other handle the wait fails.
checkChildProcessStatus(handle) ==
  IF handle \in Pids /\ procs[handle].st = "alive"
    THEN {[state |-> "alive", code |-> 0]}
           \cup {[state |-> "exited", code |-> c] : c \in ExitCodes}
    ELSE {[state |-> "error", code |-> 0]}

\* What reading through the null worker_ pointer can do.
NullDeref == {"crash", "invalid"}

\* Where start() goes on when watch returns r (lines 159-166 and 171-175).
AfterWatch(r) ==
  IF cur = 0 THEN (IF r THEN "ext_begin" ELSE "fates_check")
  ELSE (IF r THEN "ext_next" ELSE "ce_check")

Running == pc \notin {"done", "crashed", "exited", "sanity"}

(***************************************************************************)
(* Initial states.                                                         *)
(***************************************************************************)
\* The registry after construction and addExtensionPath for each registered
\* path; nothing launched yet.
InitRegistry(registered) ==
  /\ worker_ = <<0>>
  /\ state_ = ZeroState
  /\ extensions_ = [q \in registered |-> 0]
  /\ extension_states_ = [q \in registered |-> ZeroState]
  /\ worker_status_ \in InitialWorkerStatus
  /\ worker_restarts_ = 0
  /\ fates_bound_ = FALSE
  /\ locked = FALSE

InitRest ==
  /\ interrupted_ = FALSE
  /\ now = StartTime
  /\ procs = [n \in Pids |-> NoProc]
  /\ env_extensions = FALSE
  /\ shutdown_ = <<>>
  /\ child = 0
  /\ cur = 0
  /\ todo = {}
  /\ failing_extensions = {}
  /\ result = "error"
  /\ status = 0
  /\ row = NoRow
  /\ probe = NoProbe
  /\ verdict = "none"
  /\ cpu_hist = NoCpuHist
  /\ mem_hist = NoMemHist
  /\ observed_exit = NoExit
  /\ respawn_pending = "none"
  /\ fates_seen = FALSE
  /\ launch_count = [q \in Paths |-> 0]

\* The levels the watch loop is followed at.
LoopLevels == {1}

Init ==
  /\ pc = "start"
  /\ loops = 0
  /\ use_worker_ \in BOOLEAN
  /\ watchdog_level \in LoopLevels
  /\ \E registered \in SUBSET Paths : InitRegistry(registered)
  /\ InitRest

(***************************************************************************)
(* WatcherRunner::start, the loop.                                         *)
(***************************************************************************)
\* Line 155 followed by a test of interrupted() before the loop body: a while loop in place of the do-while.
StartTestsFirst ==
  /\ pc = "start"
  /\ state_' = ResetCounters(state_, 0)
  /\ pc' = IF interrupted_ THEN "done" ELSE "loop"
  /\ UNCHANGED <<config, worker_, extensions_, extension_states_, worker_status_,
                 worker_restarts_, fates_bound_, locked, host, locals, verdict,
                 history>>

\* Line 155.
Start ==
  /\ pc = "start"
  /\ state_' = ResetCounters(state_, 0)
  /\ pc' = "loop"
  /\ UNCHANGED <<config, worker_, extensions_, extension_states_, worker_status_,
                 worker_restarts_, fates_bound_, locked, host, locals, verdict,
                 history>>

\* Line 159: use_worker_ && watch(Watcher::getWorker()) is entered.
LoopTop ==
  /\ pc = "loop"
  /\ IF ~use_worker_
       THEN pc' = "ext_begin" /\ UNCHANGED <<child, cur>>
       ELSE IF worker_ # <<>>
         THEN pc' = "watch" /\ child' = worker_[1] /\ cur' = 0
         ELSE \E o \in NullDeref :
                IF o = "crash"
                  THEN pc' = "crashed" /\ UNCHANGED <<child, cur>>
                  ELSE pc' = "watch" /\ child' = 0 /\ cur' = 0
  /\ UNCHANGED <<config, registry, fates_bound_, locked, host, todo,
                 failing_extensions, result, status, row, probe, verdict,
                 history>>

\* Line 188: checkChildProcessStatus(child, status) on a child that is
\* running, or has just exited with `code`; an exited child is reaped.
CheckStatus ==
  /\ pc = "watch"
  /\ \E r \in checkChildProcessStatus(child) :
       /\ result' = r.state
       /\ status' = r.code
       /\ procs' = IF r.state = "exited"
                     THEN [procs EXCEPT ![child] = [st |-> "gone", code |-> 0]]
                     ELSE procs
  /\ pc' = "watch_decide"
  /\ UNCHANGED <<config, registry, fates_bound_, locked, interrupted_, now,
                 env_extensions, shutdown_, child, cur, todo, failing_extensions,
                 row, probe, verdict, history>>

\* Lines 189-211 without the test of fatesBound() at line 189.
WatchDecideIgnoresFates ==
  /\ pc = "watch_decide"
  /\ IF child = 0 \/ result = "error"
       THEN /\ pc' = AfterWatch(FALSE)
            /\ UNCHANGED <<worker_status_, observed_exit, respawn_pending>>
       ELSE IF result = "alive"
         THEN /\ pc' = "sane_query"
              /\ UNCHANGED <<worker_status_, observed_exit, respawn_pending>>
         ELSE /\ worker_status_' = status
              /\ pc' = AfterWatch(TRUE)
              /\ observed_exit' =
                   IF cur = 0 THEN [observed_exit EXCEPT !.worker = <<status>>]
                   ELSE [observed_exit EXCEPT !.extension = TRUE]
              /\ respawn_pending' =
                   IF cur = 0 /\ status \notin {EXIT_SUCCESS, EXIT_CATASTROPHIC}
                     THEN "exit" ELSE respawn_pending
  /\ fates_seen' = (fates_seen \/ fates_bound_)
  /\ result' = "error"
  /\ status' = 0
  /\ UNCHANGED <<config, worker_, state_, extensions_, extension_states_,
                 worker_restarts_, fates_bound_, locked, host, child, cur, todo,
                 failing_extensions, row, probe, verdict, cpu_hist, mem_hist,
                 launch_count>>

\* Lines 189-211 with false returned at line 211 for a child that has exited.
WatchDecideExitReturnsFalse ==
  /\ pc = "watch_decide"
  /\ IF fates_bound_ \/ child = 0 \/ result = "error"
       THEN /\ pc' = AfterWatch(FALSE)
            /\ UNCHANGED <<worker_status_, observed_exit, respawn_pending>>
       ELSE IF result = "alive"
         THEN /\ pc' = "sane_query"
              /\ UNCHANGED <<worker_status_, observed_exit, respawn_pending>>
         ELSE /\ worker_status_' = status
              /\ pc' = AfterWatch(FALSE)
              /\ observed_exit' =
                   IF cur = 0 THEN [observed_exit EXCEPT !.worker = <<status>>]
                   ELSE [observed_exit EXCEPT !.extension = TRUE]
              /\ respawn_pending' =
                   IF cur = 0 /\ status \notin {EXIT_SUCCESS, EXIT_CATASTROPHIC}
                     THEN "exit" ELSE respawn_pending
  /\ fates_seen' = (fates_seen \/ fates_bound_)
  /\ result' = "error"
  /\ status' = 0
  /\ UNCHANGED <<config, worker_, state_, extensions_, extension_states_,
                 worker_restarts_, fates_bound_, locked, host, child, cur, todo,
                 failing_extensions, row, probe, verdict, cpu_hist, mem_hist,
                 launch_count>>

\* Lines 189-211: the rest of watch, up to the call of isChildSane.
WatchDecide ==
  /\ pc = "watch_decide"
  /\ IF fates_bound_ \/ child = 0 \/ result = "error"
       THEN /\ pc' = AfterWatch(FALSE)
            /\ UNCHANGED <<worker_status_, observed_exit, respawn_pending>>
       ELSE IF result = "alive"
         THEN /\ pc' = "sane_query"
              /\ UNCHANGED <<worker_status_, observed_exit, respawn_pending>>
         ELSE /\ worker_status_' = status
              /\ pc' = AfterWatch(TRUE)
              /\ observed_exit' =
                   IF cur = 0 THEN [observed_exit EXCEPT !.worker = <<status>>]
                   ELSE [observed_exit EXCEPT !.extension = TRUE]
              /\ respawn_pending' =
                   IF cur = 0 /\ status \notin {EXIT_SUCCESS, EXIT_CATASTROPHIC}
                     THEN "exit" ELSE respawn_pending
  /\ fates_seen' = (fates_seen \/ fates_bound_)
  /\ result' = "error"
  /\ status' = 0
  /\ UNCHANGED <<config, worker_, state_, extensions_, extension_states_,
                 worker_restarts_, fates_bound_, locked, host, child, cur, todo,
                 failing_extensions, row, probe, verdict, cpu_hist, mem_hist,
                 launch_count>>

(***************************************************************************)
(* WatcherRunner::isChildSane and stopChild.                               *)
(***************************************************************************)
\* Lines 222-227 with true returned when the query yields no row.
SaneQueryMissingRowSane ==
  /\ pc = "sane_query"
  /\ \/ /\ verdict' = "norow"
        /\ pc' = AfterWatch(TRUE)
        /\ UNCHANGED row
     \/ /\ \E r \in LoopRows(watchdog_level, cur) : row' = r
        /\ pc' = "sane_locked"
        /\ UNCHANGED verdict
  /\ UNCHANGED <<config, registry, fates_bound_, locked, host, child, cur, todo,
                 failing_extensions, result, status, probe, history>>

\* Lines 222-227: the processes query; no row means "not sane".
SaneQuery ==
  /\ pc = "sane_query"
  /\ \/ /\ verdict' = "norow"
        /\ pc' = "kill"
        /\ UNCHANGED row
     \/ /\ \E r \in LoopRows(watchdog_level, cur) : row' = r
        /\ pc' = "sane_locked"
        /\ UNCHANGED verdict
  /\ UNCHANGED <<config, registry, fates_bound_, locked, host, child, cur, todo,
                 failing_extensions, result, status, probe, history>>

\* isChildSane's locals once the locked block has produced `state`.
SaneProbe(state, r, level) ==
  [sustained_latency |-> state.sustained_latency,
   footprint |-> MeasuredFootprint(state, r, level),
   parent |-> ParseRow(r, level).parent]

\* Lines 237-277 for a child that getState resolves to the worker.
SaneLockedWorker ==
  LET s == SaneUpdate(state_, row, watchdog_level)
  IN  /\ state_' = s
      /\ probe' = SaneProbe(s, row, watchdog_level)
      /\ cpu_hist' = CpuHistAfter(cpu_hist, state_, row, watchdog_level)
      /\ mem_hist' = MemHistAfter(mem_hist, row, watchdog_level)
      /\ pc' = "sane_decide"
      /\ UNCHANGED extension_states_

\* Lines 237-277 for a child that getState resolves to an extension path
\* (or to the empty path when no extension holds the handle).
SaneLockedExtension ==
  LET path == getExtensionPath(child)
      s == SaneUpdate(StateAt(path), row, watchdog_level)
  IN  /\ extension_states_' = WithState(path, s)
      /\ probe' = SaneProbe(s, row, watchdog_level)
      /\ pc' = "sane_decide"
      /\ UNCHANGED <<state_, cpu_hist, mem_hist>>

\* Lines 237-277.  getState compares the child with *worker_.
SaneLocked ==
  /\ pc = "sane_locked"
  /\ IF worker_ = <<>>
       THEN \E o \in NullDeref :
              IF o = "crash"
                THEN /\ pc' = "crashed"
                     /\ UNCHANGED <<state_, extension_states_, probe, cpu_hist,
                                    mem_hist>>
                ELSE SaneLockedExtension
       ELSE IF child = worker_[1] THEN SaneLockedWorker ELSE SaneLockedExtension
  /\ UNCHANGED <<config, worker_, extensions_, worker_status_, worker_restarts_,
                 fates_bound_, locked, host, child, cur, todo, failing_extensions,
                 result, status, row, verdict, observed_exit, respawn_pending,
                 fates_seen,
                 launch_count>>

\* Watcher::reset for the worker (lines 111-115).
ResetWorker ==
  /\ worker_' = <<>>
  /\ state_' = ResetCounters(state_, 0)
  /\ procs' = Forget(procs, Referenced \ {child})
  /\ cpu_hist' = NoCpuHist
  /\ UNCHANGED <<extensions_, extension_states_>>

\* Watcher::reset for an extension (lines 118-123).  After the first match
\* the handle `child` refers to is destroyed by setExtension, so what the
\* comparison yields for the paths that follow is not determined.
ResetExtension ==
  LET first == getExtensionPath(child)
      later == {q \in DOMAIN extensions_ : first # 0 /\ q > first}
  IN  \E extra \in SUBSET later :
        LET hit == (IF first = 0 THEN {} ELSE {first}) \cup extra
        IN  /\ extensions_' =
                 [q \in DOMAIN extensions_ |-> IF q \in hit THEN 0 ELSE extensions_[q]]
            /\ extension_states_' =
                 [q \in DOMAIN extension_states_ \cup hit |->
                    IF q \in hit THEN ResetCounters(StateAt(q), 0)
                    ELSE extension_states_[q]]
            /\ procs' = Forget(procs, Referenced \ {extensions_[q] : q \in hit})
            /\ UNCHANGED <<worker_, state_, cpu_hist>>

\* Lines 281-286: Watcher::reset(child); return true.
SaneForeign ==
  /\ IF worker_ = <<>>
       THEN \E o \in NullDeref :
              IF o = "crash"
                THEN /\ pc' = "crashed"
                     /\ UNCHANGED <<worker_, state_, extensions_, extension_states_,
                                    procs, cpu_hist>>
                ELSE pc' = AfterWatch(TRUE) /\ ResetExtension
       ELSE /\ pc' = AfterWatch(TRUE)
            /\ IF child = worker_[1] THEN ResetWorker ELSE ResetExtension

\* Lines 281-307: the decision isChildSane takes from its locals.
SaneDecide ==
  /\ pc = "sane_decide"
  /\ LET v == SaneVerdict(probe.parent, probe.sustained_latency, probe.footprint,
                          watchdog_level)
     IN  /\ verdict' = v
         /\ IF v = "foreign" THEN SaneForeign
            ELSE /\ pc' = IF v = "healthy" THEN AfterWatch(TRUE) ELSE "kill"
                 /\ UNCHANGED <<worker_, state_, extensions_, extension_states_,
                                procs, cpu_hist>>
  /\ row' = NoRow
  /\ probe' = NoProbe
  /\ UNCHANGED <<config, worker_status_, worker_restarts_, fates_bound_, locked,
                 interrupted_, now, env_extensions, shutdown_, child, cur, todo,
                 failing_extensions, result, status, mem_hist,
                 observed_exit, respawn_pending, fates_seen,
                 launch_count>>

\* Line 215: child.kill().
Kill ==
  /\ pc = "kill"
  /\ procs' = [procs EXCEPT ![child] = [st |-> "killed", code |-> 0]]
  /\ pc' = "cleanup"
  /\ respawn_pending' = IF cur = 0 THEN "kill" ELSE respawn_pending
  /\ UNCHANGED <<config, registry, fates_bound_, locked, interrupted_, now,
                 env_extensions, shutdown_, locals, verdict, cpu_hist, mem_hist,
                 observed_exit, fates_seen,
                 launch_count>>

\* Line 218 followed by a return of true from watch.
CleanupReturnsTrue ==
  /\ pc = "cleanup"
  /\ procs' = [n \in Pids |-> IF procs[n].st = "killed"
                                THEN [st |-> "gone", code |-> 0] ELSE procs[n]]
  /\ pc' = AfterWatch(TRUE)
  /\ UNCHANGED <<config, registry, fates_bound_, locked, interrupted_, now,
                 env_extensions, shutdown_, locals, verdict, history>>

\* Line 218: cleanupDefunctProcesses(); watch returns false.
Cleanup ==
  /\ pc = "cleanup"
  /\ procs' = [n \in Pids |-> IF procs[n].st = "killed"
                                THEN [st |-> "gone", code |-> 0] ELSE procs[n]]
  /\ pc' = AfterWatch(FALSE)
  /\ UNCHANGED <<config, registry, fates_bound_, locked, interrupted_, now,
                 env_extensions, shutdown_, locals, verdict, history>>

(***************************************************************************)
(* WatcherRunner::createWorker.                                            *)
(***************************************************************************)
\* Line 160: the worker's watch returned false.
FatesCheck ==
  /\ pc = "fates_check"
  /\ pc' = IF fates_bound_ THEN "done" ELSE "cw_check"
  /\ verdict' = "none"
  /\ fates_seen' = (fates_seen \/ fates_bound_)
  /\ UNCHANGED <<config, registry, fates_bound_, locked, host, locals, cpu_hist,
                 mem_hist, observed_exit, respawn_pending, launch_count>>

\* The respawn-rate test without the limit: any earlier respawn time counts.
WorkerRespawnsTooQuicklyNoLimit == state_.last_respawn_time <= now

\* Lines 313-314.
WorkerRespawnsTooQuickly ==
  GreaterThanUnsignedDiff(state_.last_respawn_time, now,
                          getWorkerLimit("RESPAWN_LIMIT", watchdog_level))

\* Lines 311-317: under the lock, the respawn-rate test and workerRestarted().
CreateWorkerCheck ==
  /\ pc = "cw_check"
  /\ respawn_pending' = "none"
  /\ IF worker_ = <<>>
       THEN \E o \in NullDeref :
              IF o = "crash"
                THEN pc' = "crashed" /\ UNCHANGED <<worker_restarts_, locked>>
                ELSE IF WorkerRespawnsTooQuickly
                  THEN /\ worker_restarts_ < MaxRestarts
                       /\ worker_restarts_' = worker_restarts_ + 1
                       /\ locked' = TRUE
                       /\ pc' = "cw_backoff"
                  ELSE pc' = "cw_prepare" /\ UNCHANGED <<worker_restarts_, locked>>
       ELSE IF WorkerRespawnsTooQuickly
         THEN /\ worker_restarts_ < MaxRestarts
              /\ worker_restarts_' = worker_restarts_ + 1
              /\ locked' = TRUE
              /\ pc' = "cw_backoff"
         ELSE pc' = "cw_prepare" /\ UNCHANGED <<worker_restarts_, locked>>
  /\ UNCHANGED <<config, worker_, state_, extensions_, extension_states_,
                 worker_status_, fates_bound_, host, locals, verdict, cpu_hist,
                 mem_hist, observed_exit, fates_seen,
                 launch_count>>

\* The delay computed from the restart count as it was before workerRestarted().
BackoffSecondsOldCount ==
  getWorkerLimit("RESPAWN_DELAY", watchdog_level) + 2 ^ (worker_restarts_ - 1)

\* Lines 319-321, in seconds: RESPAWN_DELAY + 2^restart_count.
BackoffSeconds ==
  getWorkerLimit("RESPAWN_DELAY", watchdog_level) + 2 ^ worker_restarts_

\* Lines 319-324: pauseMilli(delay), then the locker goes out of scope.
CreateWorkerBackoff ==
  /\ pc = "cw_backoff"
  /\ now + BackoffSeconds <= MaxTime
  /\ now' = now + BackoffSeconds
  /\ locked' = FALSE
  /\ pc' = "cw_prepare"
  /\ UNCHANGED <<config, registry, fates_bound_, interrupted_, procs,
                 env_extensions, shutdown_, locals, verdict, history>>

\* Lines 327-353: the watcher's own path, OSQUERY_EXTENSIONS, safePermissions.
CreateWorkerPrepare ==
  /\ pc = "cw_prepare"
  /\ \/ /\ shutdown_' = <<EXIT_FAILURE>>
        /\ pc' = "ext_begin"
        /\ UNCHANGED env_extensions
     \/ /\ env_extensions' = hasManagedExtensions
        /\ shutdown_' = <<EXIT_FAILURE>>
        /\ pc' = "ext_begin"
     \/ /\ env_extensions' = hasManagedExtensions
        /\ pc' = "cw_launch"
        /\ UNCHANGED shutdown_
  /\ UNCHANGED <<config, registry, fates_bound_, locked, interrupted_, now, procs,
                 locals, verdict, history>>

\* Initializer::shutdown(code), lines 359 and 400: the process ends at once
\* with that code; the call does not return.
InitializerShutdown(code) ==
  /\ shutdown_' = <<code>>
  /\ pc' = "exited"

\* Lines 355-364 with the respawn time stamped before the test of the handle.
CreateWorkerLaunchStampsFirst ==
  /\ pc = "cw_launch"
  /\ \/ /\ InitializerShutdown(EXIT_FAILURE)
        /\ state_' = ResetCounters(state_, now)
        /\ UNCHANGED <<worker_, procs, cpu_hist, mem_hist>>
     \/ /\ FreePids # {}
        /\ LET pid == CHOOSE n \in FreePids : \A m \in FreePids : n <= m
               old == IF worker_ = <<>> THEN {} ELSE {worker_[1]}
           IN  /\ worker_' = <<pid>>
               /\ procs' = Forget([procs EXCEPT ![pid] = [st |-> "alive", code |-> 0]],
                                  (Referenced \ old) \cup {pid})
        /\ state_' = ResetCounters(state_, now)
        /\ cpu_hist' = NoCpuHist
        /\ mem_hist' = NoMemHist
        /\ pc' = "ext_begin"
        /\ UNCHANGED shutdown_
  /\ UNCHANGED <<config, extensions_, extension_states_, worker_status_,
                 worker_restarts_, fates_bound_, locked, interrupted_, now,
                 env_extensions, locals, verdict, observed_exit,
                 respawn_pending, fates_seen,
                 launch_count>>

\* Lines 355-364: launchWorker, then setWorker and resetWorkerCounters(now).
CreateWorkerLaunch ==
  /\ pc = "cw_launch"
  /\ \/ /\ InitializerShutdown(EXIT_FAILURE)
        /\ UNCHANGED <<worker_, state_, procs, cpu_hist, mem_hist>>
     \/ /\ FreePids # {}
        /\ LET pid == CHOOSE n \in FreePids : \A m \in FreePids : n <= m
               old == IF worker_ = <<>> THEN {} ELSE {worker_[1]}
           IN  /\ worker_' = <<pid>>
               /\ procs' = Forget([procs EXCEPT ![pid] = [st |-> "alive", code |-> 0]],
                                  (Referenced \ old) \cup {pid})
        /\ state_' = ResetCounters(state_, now)
        /\ cpu_hist' = NoCpuHist
        /\ mem_hist' = NoMemHist
        /\ pc' = "ext_begin"
        /\ UNCHANGED shutdown_
  /\ UNCHANGED <<config, extensions_, extension_states_, worker_status_,
                 worker_restarts_, fates_bound_, locked, interrupted_, now,
                 env_extensions, locals, verdict, observed_exit,
                 respawn_pending, fates_seen,
                 launch_count>>

(***************************************************************************)
(* The extension loop and WatcherRunner::createExtension.                  *)
(***************************************************************************)
\* Lines 169-170.
ExtBegin ==
  /\ pc = "ext_begin"
  /\ todo' = DOMAIN extensions_
  /\ failing_extensions' = {}
  /\ pc' = "ext_next"
  /\ verdict' = "none"
  /\ UNCHANGED <<config, registry, fates_bound_, locked, host, child, cur, result,
                 status, row, probe, history>>

\* Lines 170-171 with the end of the map leading straight to the sleep of line 181.
ExtNextSkipsRemoval ==
  /\ pc = "ext_next"
  /\ IF todo = {}
       THEN pc' = "pause" /\ verdict' = "none" /\ UNCHANGED <<child, cur, todo>>
       ELSE LET path == CHOOSE q \in todo : \A o \in todo : q <= o
            IN  /\ cur' = path
                /\ child' = extensions_[path]
                /\ todo' = todo \ {path}
                /\ verdict' = "none"
                /\ pc' = "watch"
  /\ UNCHANGED <<config, registry, fates_bound_, locked, host, failing_extensions,
                 result, status, row, probe, history>>

\* Line 170-171: the next extension in map order, or the end of the map.
ExtNext ==
  /\ pc = "ext_next"
  /\ IF todo = {}
       THEN pc' = "remove" /\ verdict' = "none" /\ UNCHANGED <<child, cur, todo>>
       ELSE LET path == CHOOSE q \in todo : \A o \in todo : q <= o
            IN  /\ cur' = path
                /\ child' = extensions_[path]
                /\ todo' = todo \ {path}
                /\ verdict' = "none"
                /\ pc' = "watch"
  /\ UNCHANGED <<config, registry, fates_bound_, locked, host, failing_extensions,
                 result, status, row, probe, history>>

\* The respawn-rate test applied from the second launch on only.
ExtensionRespawnsTooQuicklyAgain(path) ==
  /\ launch_count[path] >= 2
  /\ GreaterThanUnsignedDiff(StateAt(path).last_respawn_time, now,
                             getWorkerLimit("RESPAWN_LIMIT", watchdog_level))

\* Lines 372-373.
ExtensionRespawnsTooQuickly(path) ==
  GreaterThanUnsignedDiff(StateAt(path).last_respawn_time, now,
                          getWorkerLimit("RESPAWN_LIMIT", watchdog_level))

\* Lines 370-378: under the lock, the respawn-rate test.
CreateExtensionCheck ==
  /\ pc = "ce_check"
  /\ extension_states_' = WithState(cur, StateAt(cur))
  /\ IF ExtensionRespawnsTooQuickly(cur)
       THEN /\ failing_extensions' = failing_extensions \cup {cur}
            /\ pc' = "ext_next"
       ELSE /\ pc' = "ce_perms"
            /\ UNCHANGED failing_extensions
  /\ verdict' = "none"
  /\ UNCHANGED <<config, worker_, state_, extensions_, worker_status_,
                 worker_restarts_, fates_bound_, locked, host, child, cur, todo,
                 result, status, row, probe, history>>

\* Lines 381-388: safePermissions on the extension binary.
CreateExtensionPerms ==
  /\ pc = "ce_perms"
  /\ \/ /\ failing_extensions' = failing_extensions \cup {cur}
        /\ pc' = "ext_next"
     \/ /\ pc' = "ce_launch"
        /\ UNCHANGED failing_extensions
  /\ UNCHANGED <<config, registry, fates_bound_, locked, host, child, cur, todo,
                 result, status, row, probe, verdict, history>>

\* Lines 390-408 with a failed launch passed over: no shutdown, the loop goes on.
CreateExtensionLaunchSkipsFailure ==
  /\ pc = "ce_launch"
  /\ \/ /\ pc' = "ext_next"
        /\ UNCHANGED shutdown_
        /\ UNCHANGED <<extensions_, extension_states_, procs, launch_count>>
     \/ /\ FreePids # {}
        /\ LET pid == CHOOSE n \in FreePids : \A m \in FreePids : n <= m
           IN  /\ extensions_' = [extensions_ EXCEPT ![cur] = pid]
               /\ procs' = Forget([procs EXCEPT ![pid] = [st |-> "alive", code |-> 0]],
                                  (Referenced \ {extensions_[cur]}) \cup {pid})
        /\ extension_states_' = WithState(cur, ResetCounters(StateAt(cur), now))
        /\ launch_count' =
             [launch_count EXCEPT ![cur] = Min(launch_count[cur] + 1, HistCap)]
        /\ pc' = "ext_next"
        /\ UNCHANGED shutdown_
  /\ UNCHANGED <<config, worker_, state_, worker_status_, worker_restarts_,
                 fates_bound_, locked, interrupted_, now, env_extensions, locals,
                 verdict, cpu_hist, mem_hist, observed_exit, respawn_pending,
                 fates_seen>>

\* Lines 390-408 with Initializer::shutdown returning at line 400: the absent
\* handle is installed at line 403 and true is returned.
CreateExtensionLaunchInstallsNull ==
  /\ pc = "ce_launch"
  /\ \/ /\ shutdown_' = <<EXIT_FAILURE>>
        /\ pc' = "ext_next"
        /\ extensions_' = [extensions_ EXCEPT ![cur] = 0]
        /\ extension_states_' = WithState(cur, ResetCounters(StateAt(cur), now))
        /\ UNCHANGED <<procs, launch_count>>
     \/ /\ FreePids # {}
        /\ LET pid == CHOOSE n \in FreePids : \A m \in FreePids : n <= m
           IN  /\ extensions_' = [extensions_ EXCEPT ![cur] = pid]
               /\ procs' = Forget([procs EXCEPT ![pid] = [st |-> "alive", code |-> 0]],
                                  (Referenced \ {extensions_[cur]}) \cup {pid})
        /\ extension_states_' = WithState(cur, ResetCounters(StateAt(cur), now))
        /\ launch_count' =
             [launch_count EXCEPT ![cur] = Min(launch_count[cur] + 1, HistCap)]
        /\ pc' = "ext_next"
        /\ UNCHANGED shutdown_
  /\ UNCHANGED <<config, worker_, state_, worker_status_, worker_restarts_,
                 fates_bound_, locked, interrupted_, now, env_extensions, locals,
                 verdict, cpu_hist, mem_hist, observed_exit, respawn_pending,
                 fates_seen>>

\* Lines 390-408: launchExtension, setExtension, resetExtensionCounters(now).
CreateExtensionLaunch ==
  /\ pc = "ce_launch"
  /\ \/ /\ InitializerShutdown(EXIT_FAILURE)
        /\ UNCHANGED <<extensions_, extension_states_, procs, launch_count>>
     \/ /\ FreePids # {}
        /\ LET pid == CHOOSE n \in FreePids : \A m \in FreePids : n <= m
           IN  /\ extensions_' = [extensions_ EXCEPT ![cur] = pid]
               /\ procs' = Forget([procs EXCEPT ![pid] = [st |-> "alive", code |-> 0]],
                                  (Referenced \ {extensions_[cur]}) \cup {pid})
        /\ extension_states_' = WithState(cur, ResetCounters(StateAt(cur), now))
        /\ launch_count' =
             [launch_count EXCEPT ![cur] = Min(launch_count[cur] + 1, HistCap)]
        /\ pc' = "ext_next"
        /\ UNCHANGED shutdown_
  /\ UNCHANGED <<config, worker_, state_, worker_status_, worker_restarts_,
                 fates_bound_, locked, interrupted_, now, env_extensions, locals,
                 verdict, cpu_hist, mem_hist, observed_exit, respawn_pending,
                 fates_seen>>

\* A removal that erases the handles of the failed extensions and keeps
\* their states.
RemoveFailingHandlesOnly ==
  /\ pc = "remove"
  /\ extensions_' = [q \in DOMAIN extensions_ \ failing_extensions |-> extensions_[q]]
  /\ procs' = Forget(procs, {extensions_[q] : q \in DOMAIN extensions_ \ failing_extensions}
                              \cup (IF worker_ = <<>> THEN {} ELSE {worker_[1]}))
  /\ failing_extensions' = {}
  /\ child' = 0
  /\ cur' = 0
  /\ pc' = "pause"
  /\ UNCHANGED <<config, worker_, state_, extension_states_, worker_status_,
                 worker_restarts_, fates_bound_, locked, interrupted_, now,
                 env_extensions, shutdown_, todo, result, status, row, probe,
                 verdict, history>>

\* Lines 178-180: Watcher::removeExtensionPath for every failed extension.
RemoveFailing ==
  /\ pc = "remove"
  /\ extensions_' = [q \in DOMAIN extensions_ \ failing_extensions |-> extensions_[q]]
  /\ extension_states_' =
       [q \in DOMAIN extension_states_ \ failing_extensions |-> extension_states_[q]]
  /\ procs' = Forget(procs, {extensions_[q] : q \in DOMAIN extensions_ \ failing_extensions}
                              \cup (IF worker_ = <<>> THEN {} ELSE {worker_[1]}))
  /\ failing_extensions' = {}
  /\ child' = 0
  /\ cur' = 0
  /\ pc' = "pause"
  /\ UNCHANGED <<config, worker_, state_, worker_status_, worker_restarts_,
                 fates_bound_, locked, interrupted_, now, env_extensions,
                 shutdown_, todo, result, status, row, probe, verdict, history>>

\* Line 181: pauseMilli(getWorkerLimit(INTERVAL) * 1000).
Pause ==
  /\ pc = "pause"
  /\ now + getWorkerLimit("INTERVAL", watchdog_level) <= MaxTime
  /\ now' = now + getWorkerLimit("INTERVAL", watchdog_level)
  /\ pc' = "loop_cond"
  /\ UNCHANGED <<config, registry, fates_bound_, locked, interrupted_, procs,
                 env_extensions, shutdown_, locals, verdict, history>>

\* WatcherRunner::ok once the status test has passed (line 150), for a
\* worker_ that points to a handle.
WorkerOrExtensions == worker_[1] # 0 \/ hasManagedExtensions

\* Lines 143-148: the exit status ends the watcher.
StatusStops == worker_status_ \in {EXIT_SUCCESS, EXIT_CATASTROPHIC}

\* Line 182: while (!interrupted() && ok()).
LoopCond ==
  /\ pc = "loop_cond"
  /\ IF interrupted_ \/ StatusStops
       THEN pc' = "done"
       ELSE IF worker_ = <<>>
         THEN \E o \in NullDeref :
                IF o = "crash" THEN pc' = "crashed"
                ELSE pc' = IF hasManagedExtensions THEN "loop" ELSE "done"
         ELSE pc' = IF WorkerOrExtensions THEN "loop" ELSE "done"
  /\ pc' = "loop" => loops < MaxLoops
  /\ loops' = IF pc' = "loop" THEN loops + 1 ELSE loops
  /\ verdict' = "none"
  /\ UNCHANGED <<use_worker_, watchdog_level, registry, fates_bound_, locked,
                 host, locals, history>>

(***************************************************************************)
(* The environment: signals, the host, the children, the clock.            *)
(***************************************************************************)
\* A signal handler binds the fates.
Signal ==
  /\ Running
  /\ ~fates_bound_
  /\ fates_bound_' = TRUE
  /\ UNCHANGED <<pc, config, registry, locked, host, locals, verdict, history>>

\* The host asks the runnable to stop.  interrupted() is read at line 182
\* only, so the request is followed from the two places that tell it apart:
\* before start() and before the loop condition.
Interrupt ==
  /\ pc \in {"start", "loop_cond"}
  /\ ~interrupted_
  /\ interrupted_' = TRUE
  /\ UNCHANGED <<pc, config, registry, fates_bound_, locked, now, procs,
                 env_extensions, shutdown_, locals, verdict, history>>

\* A sleep lasts longer than asked for.
Oversleep ==
  /\ pc = "pause"
  /\ now + getWorkerLimit("RESPAWN_LIMIT", watchdog_level) <= MaxTime
  /\ now' = now + getWorkerLimit("RESPAWN_LIMIT", watchdog_level)
  /\ UNCHANGED <<pc, config, registry, fates_bound_, locked, interrupted_, procs,
                 env_extensions, shutdown_, locals, verdict, history>>

Next ==
  \/ Start \/ LoopTop \/ CheckStatus \/ WatchDecide
  \/ SaneQuery \/ SaneLocked \/ SaneDecide \/ Kill \/ Cleanup
  \/ FatesCheck \/ CreateWorkerCheck \/ CreateWorkerBackoff
  \/ CreateWorkerPrepare \/ CreateWorkerLaunch
  \/ ExtBegin \/ ExtNext \/ CreateExtensionCheck \/ CreateExtensionPerms
  \/ CreateExtensionLaunch \/ RemoveFailing \/ Pause \/ LoopCond
  \/ Signal \/ Interrupt \/ Oversleep

Spec == Init /\ [][Next]_vars

(***************************************************************************)
(* Properties of the watch loop.                                           *)
(***************************************************************************)
\* A step that calls launchWorker (line 355) or launchExtension (line 390).
LaunchStep == pc \in {"cw_launch", "ce_launch"} /\ pc' # pc

\* The step that runs the interval sleep of line 181.
SleepStep == pc = "pause" /\ pc' = "loop_cond"

\* C1: once fates_bound is true the loop launches no new child.  Stated for
\* the flag as the watcher thread itself has read it (at line 160 or 189):
\* after such a read, no step calls launchWorker or launchExtension.
C1_NoLaunchAfterFatesBound == [][fates_seen => ~LaunchStep]_vars

\* C2: after fates_bound is true the loop exits before it executes another
\* interval sleep.  Stated for the flag as the watcher thread has read it:
\* after such a read, no step runs the sleep of line 181.
C2_NoSleepAfterFatesBound == [][fates_seen => ~SleepStep]_vars

\* The exit codes on which ok() ends the watcher (line 146).
StopCodes == {EXIT_SUCCESS, EXIT_CATASTROPHIC}

\* The worker_ handle refers to a running process.
WorkerAlive ==
  /\ worker_ # <<>>
  /\ worker_[1] \in Pids
  /\ procs[worker_[1]].st = "alive"

\* C3: when the last observed worker exit status is EXIT_SUCCESS or
\* EXIT_CATASTROPHIC, the loop condition that follows ends the loop: the
\* loop never jumps back, so createWorker is not called for that exit.
C3_StopExitEndsLoop ==
  [][(pc = "loop_cond" /\ observed_exit.worker # <<>>
        /\ observed_exit.worker[1] \in StopCodes) => pc' # "loop"]_vars

\* C4: when the worker has exited with a code other than EXIT_SUCCESS and
\* EXIT_CATASTROPHIC and neither fates_bound nor interrupted() is set, the
\* loop does not end before createWorker has been called for that exit.
C4_OtherExitRespawns ==
  (pc = "done" /\ ~fates_bound_ /\ ~interrupted_) => respawn_pending # "exit"

\* C5: with a worker in use that is alive, no child exit observed, no
\* restart, no signal and no interrupt, the loop has not terminated.
C5_HealthyWorkerKeepsLoop ==
  (/\ use_worker_ /\ WorkerAlive
   /\ observed_exit = NoExit /\ worker_restarts_ = 0
   /\ ~fates_bound_ /\ ~interrupted_) => pc # "done"

\* C6: worker_status holds the exit code of the most recently observed exit
\* of the worker, and its initial value while no worker exit was observed.
C6_StatusIsWorkerExit ==
  IF observed_exit.worker = <<>>
    THEN worker_status_ \in InitialWorkerStatus
    ELSE worker_status_ = observed_exit.worker[1]

\* The last check of the worker decided on CPU alone: the row was the
\* watcher's child and the memory limit did not trip.
WorkerCpuDecided == cur = 0 /\ verdict \in {"healthy", "latency"}

\* C8 (as amended): at watchdog level 1 a worker whose CPU delta exceeds
\* UTILIZATION_LIMIT at every check is killed on its 2nd check and not on
\* its 1st, and createWorker is called for the killed worker in the same
\* iteration unless the fates flag was read as set.
C8_KilledOnSecondCheck ==
  /\ (watchdog_level = 1 /\ WorkerCpuDecided /\ cpu_hist.all)
       => /\ cpu_hist.run \in {1, 2}
          /\ verdict = "latency" <=> cpu_hist.run = 2
  /\ respawn_pending = "kill"
       => \/ pc \in {"cleanup", "fates_check", "cw_check"}
          \/ pc = "done" /\ fates_seen

\* C8 reached: the worker was killed at its 2nd over-budget check and
\* createWorker has been entered for it.
C8_Witness ==
  /\ watchdog_level = 1
  /\ pc = "cw_check"
  /\ respawn_pending = "kill"
  /\ cpu_hist.all /\ cpu_hist.run = 2

\* C8 as written: such a worker is killed on the 3rd check.
C8_KilledOnThirdCheck ==
  (watchdog_level = 1 /\ WorkerCpuDecided /\ cpu_hist.all /\ verdict = "latency")
    => cpu_hist.run = 3

(***************************************************************************)
(* The sanity evaluator on its own: one child (the worker) is checked with *)
(* any row the processes table can return, at every watchdog level, and is *)
(* respawned after it was stopped, reset or has exited.                    *)
(***************************************************************************)
SanityLevels == 0..3

InitSanity ==
  /\ pc = "sanity"
  /\ loops = 0
  /\ use_worker_ = TRUE
  /\ watchdog_level \in SanityLevels
  /\ InitRegistry({})
  /\ InitRest

\* One call of isChildSane on the child (lines 221-308); a foreign row ends
\* in Watcher::reset, which calls resetWorkerCounters(0) (line 114).
\* s, l and v are the state, the locals and the decision of that one call.
SanityCheck ==
  /\ pc = "sanity"
  /\ verdict \in {"none", "healthy"}
  /\ \E r \in SanityRows(watchdog_level) :
       \E s \in {SaneUpdate(state_, r, watchdog_level)} :
       \E l \in {SaneProbe(s, r, watchdog_level)} :
       \E v \in {SaneVerdict(l.parent, l.sustained_latency, l.footprint,
                            watchdog_level)} :
           /\ state_' = IF v = "foreign" THEN ResetCounters(s, 0) ELSE s
           /\ verdict' = v
           /\ cpu_hist' = IF v = "foreign" THEN NoCpuHist
                          ELSE CpuHistAfter(cpu_hist, state_, r, watchdog_level)
           /\ mem_hist' = IF v = "foreign" THEN NoMemHist
                          ELSE MemHistAfter(mem_hist, r, watchdog_level)
  /\ UNCHANGED <<pc, config, worker_, extensions_, extension_states_,
                 worker_status_, worker_restarts_, fates_bound_, locked, host,
                 locals, observed_exit, respawn_pending, fates_seen,
                 launch_count>>

\* A new instance of the child is launched: resetWorkerCounters(now) at
\* line 364 (resetExtensionCounters at line 408 for an extension).
SanityRespawn ==
  /\ pc = "sanity"
  /\ verdict # "none"
  /\ state_' = ResetCounters(state_, now)
  /\ verdict' = "none"
  /\ cpu_hist' = NoCpuHist
  /\ mem_hist' = NoMemHist
  /\ UNCHANGED <<pc, config, worker_, extensions_, extension_states_,
                 worker_status_, worker_restarts_, fates_bound_, locked, host,
                 locals, observed_exit, respawn_pending, fates_seen,
                 launch_count>>

NextSanity == SanityCheck \/ SanityRespawn

SpecSanity == InitSanity /\ [][NextSanity]_vars

(***************************************************************************)
(* Properties of the sanity evaluator.                                     *)
(***************************************************************************)
\* The number of consecutive over-budget checks that reaches LATENCY_LIMIT.
ChecksToTrip(level) ==
  (getWorkerLimit("LATENCY_LIMIT", level) + Iv(level) - 1) \div Iv(level)

\* C7: for a child of the watcher whose memory is within the limit, the
\* evaluator reports unhealthy at a check exactly when the CPU delta has
\* exceeded UTILIZATION_LIMIT at this and the preceding checks for
\* ceil(LATENCY_LIMIT / INTERVAL) checks in a row.
C7_TripsAfterSustainedExcess ==
  (pc = "sanity" /\ verdict \in {"healthy", "latency"})
    => (verdict = "latency" <=> cpu_hist.run >= ChecksToTrip(watchdog_level))

\* C9: whenever the evaluator reports the child healthy, the child's state
\* has sustained_latency * iv < limit(LATENCY_LIMIT).
C9_HealthyBelowLatencyLimit ==
  (pc = "sanity" /\ verdict = "healthy")
    => state_.sustained_latency * Iv(watchdog_level)
         < getWorkerLimit("LATENCY_LIMIT", watchdog_level)

\* C9 reached: a child reported healthy while its latency count is running.
C9_Witness ==
  /\ pc = "sanity"
  /\ verdict = "healthy"
  /\ state_.sustained_latency > 0

\* C10: for a child of the watcher below the latency limit, the evaluator
\* reports unhealthy for memory exactly when the resident size has grown
\* past the instance's own baseline (its first recorded resident size) by
\* more than MEMORY_LIMIT MiB; the check that records the baseline never
\* trips.
C10_MemoryTripIffGrowth ==
  (pc = "sanity" /\ verdict \in {"healthy", "memory"})
    => /\ verdict = "memory"
            <=> mem_hist.growth > getWorkerLimit("MEMORY_LIMIT", watchdog_level) * MiB
       /\ mem_hist.fresh => verdict = "healthy"

\* C11: after any reset of the child's state (the reset of a foreign row,
\* the counter reset of a respawn) and before the next check, the state has
\* initial_footprint = 0 and sustained_latency = 0.
C11_ResetClearsBaseline ==
  (pc = "sanity" /\ verdict \in {"none", "foreign"})
    => /\ state_.initial_footprint = 0
       /\ state_.sustained_latency = 0

(***************************************************************************)
(* Properties of createWorker, createExtension and the foreign-pid reset.  *)
(***************************************************************************)
\* C13: when createWorker returns after a successful launch, the registry's
\* worker handle is the newly launched valid handle, last_respawn_time is
\* the current time and sustained_latency, user_time, system_time are 0.
C13_LaunchedWorkerRegistered ==
  [][(pc = "cw_launch" /\ pc' = "ext_begin")
       => /\ worker_' # <<>>
          /\ worker_' # worker_
          /\ worker_'[1] \in Pids
          /\ procs'[worker_'[1]].st = "alive"
          /\ state_'.last_respawn_time = now'
          /\ state_'.sustained_latency = 0
          /\ state_'.user_time = 0
          /\ state_'.system_time = 0]_vars

\* createWorker has just returned from a successful relaunch of the worker.
C13_Witness ==
  /\ pc = "ext_begin"
  /\ worker_ # <<>>
  /\ worker_[1] \in Pids
  /\ procs[worker_[1]].st = "alive"
  /\ state_.last_respawn_time = now
  /\ now > StartTime
  /\ verdict = "none"

\* The row isChildSane has read names a parent that is not the watcher.
ForeignParent == probe.parent \notin {"supervisor", "unread"}

\* C14: when a live child's row shows a foreign parent, the watcher
\* invalidates its handle for that child (worker or extension), sends no
\* signal (stopChild is not entered) and watch returns true, so start()
\* respawns nothing for the child in that iteration, whatever the sample's
\* latency and memory.
C14_ForeignReleasedNotKilled ==
  [][(pc = "sane_decide" /\ pc' # pc /\ ForeignParent)
       => /\ pc' = AfterWatch(TRUE)
          /\ procs'[child].st # "killed"
          /\ (cur = 0) => (worker_' = <<>> \/ worker_'[1] = 0)
          /\ (cur # 0) => (extensions_'[cur] = 0)]_vars

\* C15: after a foreign pid was detected for the worker and its handle
\* released, the loop goes on: with no stop request, no bound fates and no
\* stopping exit status it neither ends nor dies while the released worker
\* waits for its replacement, whether or not an extension is managed.
C15_ForeignWorkerReplaced ==
  (worker_ = <<>> /\ ~interrupted_ /\ ~fates_bound_ /\ ~StatusStops)
    => pc \notin {"done", "crashed"}

\* The claim's test of a worker that respawns too quickly, in plain integers.
WorkerWithinRespawnLimit ==
  now - state_.last_respawn_time < getWorkerLimit("RESPAWN_LIMIT", watchdog_level)

\* C16: createWorker entered within RESPAWN_LIMIT seconds of the last
\* respawn first increments restart_count, then sleeps exactly
\* RESPAWN_DELAY + 2^restart_count seconds with the incremented count, and
\* then goes on to the launch: the worker is not dropped.
C16_BackoffThenLaunch ==
  [][/\ (pc = "cw_check" /\ pc' # pc /\ WorkerWithinRespawnLimit)
          => /\ worker_restarts_' = worker_restarts_ + 1
             /\ now' = now
             /\ pc' = "cw_backoff"
     /\ (pc = "cw_backoff" /\ pc' # pc)
          => /\ now' - now = getWorkerLimit("RESPAWN_DELAY", watchdog_level)
                               + 2 ^ worker_restarts_
             /\ worker_restarts_' = worker_restarts_
             /\ worker_' = worker_
             /\ pc' = "cw_prepare"]_vars

\* The back-off sleep of a worker that respawned too quickly is over and
\* createWorker is about to launch.
C16_Witness ==
  /\ pc = "cw_launch"
  /\ worker_restarts_ = 1
  /\ WorkerWithinRespawnLimit

\* The claim's test of an extension that respawns too quickly, in plain
\* integers.
ExtensionWithinRespawnLimit(path) ==
  now - StateAt(path).last_respawn_time
    < getWorkerLimit("RESPAWN_LIMIT", watchdog_level)

\* C17: createExtension called for a path launched within RESPAWN_LIMIT
\* seconds returns false without sleeping and without launching; the path
\* stays among the failed ones until the end of the iteration, where it is
\* erased from both extensions and extension_states; no path ever comes
\* back into extensions, so the loop never launches it again.
C17_QuickExtensionDropped ==
  [][/\ (pc = "ce_check" /\ pc' # pc /\ ExtensionWithinRespawnLimit(cur))
          => /\ pc' = "ext_next"
             /\ cur \in failing_extensions'
             /\ now' = now
             /\ procs' = procs
             /\ extensions_' = extensions_
     /\ (pc \notin {"remove", "ext_begin"})
          => failing_extensions \subseteq failing_extensions'
     /\ (pc = "remove" /\ pc' # pc)
          => \A p \in failing_extensions :
               /\ p \notin DOMAIN extensions_'
               /\ p \notin DOMAIN extension_states_'
     /\ DOMAIN extensions_' \subseteq DOMAIN extensions_]_vars

\* The extension loop has ended with a path that createExtension refused
\* for respawning too quickly.
C17_Witness ==
  /\ pc = "remove"
  /\ \E p \in failing_extensions : ExtensionWithinRespawnLimit(p)

\* The step in which createExtension refuses the path for respawning too
\* quickly (lines 372-377).
ExtensionRefused == pc = "ce_check" /\ pc' = "ext_next"

C19_NoSleepUnderLock ==
  [][locked => (now' = now /\ procs' = procs)]_vars

(***************************************************************************)
(* The registry operations of Watcher, one call at a time, with their      *)
(* WatcherLocker scopes.  pc = "idle": no call is in progress.  A call     *)
(* moves pc to the access it is about to make; a locked access is two      *)
(* steps: RegistryLock, then the access, which releases the lock.          *)
(***************************************************************************)
\* What the registry operations leave alone.
RegistryRest ==
  <<loops, use_worker_, watchdog_level, worker_restarts_, fates_bound_,
    interrupted_, now, procs, env_extensions, shutdown_, todo,
    failing_extensions, result, status, row, probe, verdict, history>>

\* The accesses made inside a WatcherLocker scope.
RegistryLockedPcs ==
  {"add_set", "add_counters", "create_check", "create_set", "create_counters",
   "reset_set", "reset_counters", "remove_path", "sane_state", "worker_set"}

\* The valid handles the registry holds.
HeldHandles == Referenced \cap Pids

InitRegistryOps ==
  /\ pc = "idle"
  /\ loops = 0
  /\ use_worker_ = TRUE
  /\ watchdog_level \in LoopLevels
  /\ \E registered \in SUBSET Paths : InitRegistry(registered)
  /\ InitRest

\* WatcherLocker locker: the constructor takes the mutex.
RegistryLock ==
  /\ pc \in RegistryLockedPcs
  /\ ~locked
  /\ locked' = TRUE
  /\ UNCHANGED <<pc, worker_, state_, extensions_, extension_states_,
                 worker_status_, child, cur, RegistryRest>>

\* Watcher::addExtensionPath(path) is called (line 126).
CallAddExtensionPath ==
  /\ pc = "idle"
  /\ \E path \in Paths : cur' = path
  /\ child' = 0
  /\ pc' = "add_set"
  /\ UNCHANGED <<worker_, state_, extensions_, extension_states_,
                 worker_status_, locked, RegistryRest>>

\* Watcher::setExtension (lines 104-108), called from addExtensionPath and
\* reset with a fresh invalid handle, from createExtension with the
\* launched one.
SetExtensionStep ==
  /\ pc \in {"add_set", "reset_set", "create_set"}
  /\ locked
  /\ extensions_' =
       [q \in DOMAIN extensions_ \cup {cur} |->
          IF q = cur THEN (IF pc = "create_set" THEN child ELSE 0)
          ELSE extensions_[q]]
  /\ locked' = FALSE
  /\ pc' = CASE pc = "add_set" -> "add_counters"
             [] pc = "reset_set" -> "reset_counters"
             [] pc = "create_set" -> "create_counters"
  /\ UNCHANGED <<worker_, state_, extension_states_, worker_status_, child,
                 cur, RegistryRest>>

\* Watcher::resetExtensionCounters (lines 67-75).  After Watcher::reset's
\* call the loop of lines 118-123 goes on with a `child` that setExtension
\* has destroyed, so it may take any later path for a match.
ResetExtensionCountersStep ==
  /\ pc \in {"add_counters", "reset_counters", "create_counters"}
  /\ locked
  /\ extension_states_' =
       WithState(cur, ResetCounters(StateAt(cur),
                                    IF pc = "create_counters" THEN now ELSE 0))
  /\ locked' = FALSE
  /\ \/ pc' = "idle" /\ UNCHANGED cur
     \/ /\ pc = "reset_counters"
        /\ \E q \in DOMAIN extensions_ : q > cur /\ cur' = q
        /\ pc' = "reset_set"
  /\ UNCHANGED <<worker_, state_, extensions_, worker_status_, child,
                 RegistryRest>>

\* WatcherRunner::createExtension(path) is called for a path of the map
\* (line 172).
CallCreateExtension ==
  /\ pc = "idle"
  /\ \E path \in DOMAIN extensions_ : cur' = path
  /\ pc' = "create_check"
  /\ UNCHANGED <<worker_, state_, extensions_, extension_states_,
                 worker_status_, locked, child, RegistryRest>>

\* Lines 370-378: getState(path) under the lock; then, outside the lock,
\* the launch of lines 390-396 hands out a pid.
CreateExtensionCheckStep ==
  /\ pc = "create_check"
  /\ locked
  /\ extension_states_' = WithState(cur, StateAt(cur))
  /\ locked' = FALSE
  /\ IF ExtensionRespawnsTooQuickly(cur) \/ Pids \ Referenced = {}
       THEN pc' = "idle" /\ UNCHANGED child
       ELSE /\ pc' = "create_set"
            /\ child' = CHOOSE n \in Pids \ Referenced :
                          \A m \in Pids \ Referenced : n <= m
  /\ UNCHANGED <<worker_, state_, extensions_, worker_status_, cur,
                 RegistryRest>>

\* Watcher::removeExtensionPath(path) is called for a path of the map
\* (line 179).
CallRemoveExtensionPath ==
  /\ pc = "idle"
  /\ \E path \in DOMAIN extensions_ : cur' = path
  /\ pc' = "remove_path"
  /\ UNCHANGED <<worker_, state_, extensions_, extension_states_,
                 worker_status_, locked, child, RegistryRest>>

\* Lines 86-90.
RemoveExtensionPathStep ==
  /\ pc = "remove_path"
  /\ locked
  /\ extensions_' = [q \in DOMAIN extensions_ \ {cur} |-> extensions_[q]]
  /\ extension_states_' =
       [q \in DOMAIN extension_states_ \ {cur} |-> extension_states_[q]]
  /\ locked' = FALSE
  /\ pc' = "idle"
  /\ UNCHANGED <<worker_, state_, worker_status_, child, cur, RegistryRest>>

\* isChildSane (line 237) or Watcher::reset (line 283) is entered for a
\* running child the registry holds.
CallWithChild ==
  /\ pc = "idle"
  /\ \E h \in HeldHandles : child' = h
  /\ pc' \in {"sane_state", "reset"}
  /\ UNCHANGED <<worker_, state_, extensions_, extension_states_,
                 worker_status_, locked, cur, RegistryRest>>

\* Lines 237-240: Watcher::getState(child) inside isChildSane's lock scope
\* (lines 92-98); the entry of the child's path is created when missing.
GetStateStep ==
  /\ pc = "sane_state"
  /\ locked
  /\ locked' = FALSE
  /\ IF worker_ = <<>>
       THEN \E o \in NullDeref :
              IF o = "crash"
                THEN pc' = "crashed" /\ UNCHANGED extension_states_
                ELSE /\ pc' = "idle"
                     /\ extension_states_' =
                          WithState(getExtensionPath(child),
                                    StateAt(getExtensionPath(child)))
       ELSE /\ pc' = "idle"
            /\ extension_states_' =
                 IF child = worker_[1] THEN extension_states_
                 ELSE WithState(getExtensionPath(child),
                                StateAt(getExtensionPath(child)))
  /\ UNCHANGED <<worker_, state_, extensions_, worker_status_, child, cur,
                 RegistryRest>>

\* Watcher::reset, lines 111 and 118-119: the comparisons that find what
\* the child is; no lock is taken.
ResetFindStep ==
  /\ pc = "reset"
  /\ LET toExtension ==
           /\ cur' = getExtensionPath(child)
           /\ pc' = IF getExtensionPath(child) = 0 THEN "idle" ELSE "reset_set"
     IN  IF worker_ = <<>>
           THEN \E o \in NullDeref :
                  IF o = "crash" THEN pc' = "crashed" /\ UNCHANGED cur
                  ELSE toExtension
           ELSE IF child = worker_[1]
             THEN pc' = "worker_zero" /\ UNCHANGED cur
             ELSE toExtension
  /\ UNCHANGED <<worker_, state_, extensions_, extension_states_,
                 worker_status_, locked, child, RegistryRest>>

\* Line 112: instance().worker_ = 0; no lock is taken.
WorkerZeroStep ==
  /\ pc = "worker_zero"
  /\ worker_' = <<>>
  /\ pc' = "worker_counters_reset"
  /\ UNCHANGED <<state_, extensions_, extension_states_, worker_status_,
                 locked, child, cur, RegistryRest>>

\* createWorker has launched a worker (line 355) and calls setWorker
\* (line 363).
CallSetWorker ==
  /\ pc = "idle"
  /\ Pids \ Referenced # {}
  /\ child' = CHOOSE n \in Pids \ Referenced : \A m \in Pids \ Referenced : n <= m
  /\ pc' = "worker_set"
  /\ UNCHANGED <<worker_, state_, extensions_, extension_states_,
                 worker_status_, locked, cur, RegistryRest>>

\* Watcher::setWorker, a registry mutation, serialised by the lock.
SetWorkerStep ==
  /\ pc = "worker_set"
  /\ locked
  /\ worker_' = <<child>>
  /\ locked' = FALSE
  /\ pc' = "worker_counters_launch"
  /\ UNCHANGED <<state_, extensions_, extension_states_, worker_status_,
                 child, cur, RegistryRest>>

\* Watcher::resetWorkerCounters (lines 58-65), called at lines 113 and 364;
\* no lock is taken.
ResetWorkerCountersStep ==
  /\ pc \in {"worker_counters_reset", "worker_counters_launch"}
  /\ state_' = ResetCounters(state_,
                             IF pc = "worker_counters_launch" THEN now ELSE 0)
  /\ pc' = "idle"
  /\ UNCHANGED <<worker_, extensions_, extension_states_, worker_status_,
                 locked, child, cur, RegistryRest>>

\* watch has seen a child exit (line 206) or another thread asks
\* Watcher::hasManagedExtensions (line 131).
CallUnlocked ==
  /\ pc = "idle"
  /\ pc' \in {"status_store", "has_managed"}
  /\ UNCHANGED <<worker_, state_, extensions_, extension_states_,
                 worker_status_, locked, child, cur, RegistryRest>>

\* Line 208: worker_status_ = status; no lock is taken.
StatusStoreStep ==
  /\ pc = "status_store"
  /\ \E code \in ExitCodes : worker_status_' = code
  /\ pc' = "idle"
  /\ UNCHANGED <<worker_, state_, extensions_, extension_states_, locked,
                 child, cur, RegistryRest>>

\* Lines 132-140: extensions_.size() is read; no lock is taken.
HasManagedExtensionsStep ==
  /\ pc = "has_managed"
  /\ pc' = "idle"
  /\ UNCHANGED <<worker_, state_, extensions_, extension_states_,
                 worker_status_, locked, child, cur, RegistryRest>>

NextRegistry ==
  \/ RegistryLock
  \/ CallAddExtensionPath \/ SetExtensionStep \/ ResetExtensionCountersStep
  \/ CallCreateExtension \/ CreateExtensionCheckStep
  \/ CallRemoveExtensionPath \/ RemoveExtensionPathStep
  \/ CallWithChild \/ GetStateStep \/ ResetFindStep \/ WorkerZeroStep
  \/ CallSetWorker \/ SetWorkerStep \/ ResetWorkerCountersStep
  \/ CallUnlocked \/ StatusStoreStep \/ HasManagedExtensionsStep

SpecRegistry == InitRegistryOps /\ [][NextRegistry]_vars

(***************************************************************************)
(* Properties of the registry operations.                                  *)
(***************************************************************************)
\* C12: whatever registry operations have run, at every point where the
\* registry lock is not held the key set of extensions equals the key set
\* of extension_states.
C12_SameKeysWhenUnlocked ==
  ~locked => DOMAIN extensions_ = DOMAIN extension_states_

\* An access to the registry's fields: a step that leaves a position
\* inside a call.
RegistryAccess == pc # "idle" /\ pc' # pc

\* C20: every access to the registry state (the worker handle, the worker's
\* counters, worker_status, extensions, extension_states, the read of
\* hasManagedExtensions) is made while holding the registry mutex.
C20_AccessesUnderLock == [][RegistryAccess => locked]_vars

(***************************************************************************)
(* WatcherWatcherRunner::start: the loop a worker runs to follow the       *)
(* watcher that launched it.  child is the handle watcher_; pc is          *)
(* "ww_loop" at the loop condition, "ww_check" before                      *)
(* isLauncherProcessDead, "ww_pause" before the sleep, "ww_done" after     *)
(* the loop.                                                               *)
(***************************************************************************)
\* What the loop of WatcherWatcherRunner leaves alone.
ParentRest ==
  <<loops, use_worker_, watchdog_level, registry, fates_bound_, locked,
    env_extensions, child, cur, todo, failing_extensions, result, status, row,
    probe, verdict, history>>

\* isLauncherProcessDead(*watcher_).
LauncherDead == procs[child].st # "alive"

\* The worker has been launched by a running watcher and starts the loop.
InitParent ==
  /\ pc = "ww_loop"
  /\ loops = 0
  /\ use_worker_ = TRUE
  /\ watchdog_level \in 0..3
  /\ InitRegistry({})
  /\ interrupted_ = FALSE
  /\ now = StartTime
  /\ child \in Pids
  /\ procs = [n \in Pids |-> IF n = child THEN [st |-> "alive", code |-> 0]
                             ELSE NoProc]
  /\ env_extensions \in BOOLEAN
  /\ shutdown_ = <<>>
  /\ cur = 0
  /\ todo = {}
  /\ failing_extensions = {}
  /\ result = "error"
  /\ status = 0
  /\ row = NoRow
  /\ probe = NoProbe
  /\ verdict = "none"
  /\ cpu_hist = NoCpuHist
  /\ mem_hist = NoMemHist
  /\ observed_exit = NoExit
  /\ respawn_pending = "none"
  /\ fates_seen = FALSE
  /\ launch_count = [q \in Paths |-> 0]

\* Line 412: while (!interrupted()).
ParentLoopCond ==
  /\ pc = "ww_loop"
  /\ pc' = IF interrupted_ THEN "ww_done" ELSE "ww_check"
  /\ UNCHANGED <<interrupted_, now, procs, shutdown_, ParentRest>>

\* The check without the break of line 420: the loop goes on after the
\* request.
ParentCheckNoBreak ==
  /\ pc = "ww_check"
  /\ shutdown_' = IF LauncherDead THEN Append(shutdown_, EXIT_SUCCESS)
                  ELSE shutdown_
  /\ pc' = "ww_pause"
  /\ UNCHANGED <<interrupted_, now, procs, ParentRest>>

\* Lines 413-421: the watcher died, the worker asks for its own shutdown
\* and leaves the loop.
ParentCheck ==
  /\ pc = "ww_check"
  /\ IF LauncherDead
       THEN /\ shutdown_' = Append(shutdown_, EXIT_SUCCESS)
            /\ pc' = "ww_done"
       ELSE /\ pc' = "ww_pause"
            /\ UNCHANGED shutdown_
  /\ UNCHANGED <<interrupted_, now, procs, ParentRest>>

\* Line 422: pauseMilli(getWorkerLimit(INTERVAL) * 1000).
ParentPause ==
  /\ pc = "ww_pause"
  /\ now + getWorkerLimit("INTERVAL", watchdog_level) <= MaxTime
  /\ now' = now + getWorkerLimit("INTERVAL", watchdog_level)
  /\ pc' = "ww_loop"
  /\ UNCHANGED <<interrupted_, procs, shutdown_, ParentRest>>

\* The watcher process dies.
LauncherDies ==
  /\ pc # "ww_done"
  /\ ~LauncherDead
  /\ procs' = [procs EXCEPT ![child] = [st |-> "gone", code |-> 0]]
  /\ UNCHANGED <<pc, interrupted_, now, shutdown_, ParentRest>>

\* The host asks the runnable to stop.
ParentInterrupt ==
  /\ pc # "ww_done"
  /\ ~interrupted_
  /\ interrupted_' = TRUE
  /\ UNCHANGED <<pc, now, procs, shutdown_, ParentRest>>

NextParent ==
  \/ ParentLoopCond \/ ParentCheck \/ ParentPause
  \/ LauncherDies \/ ParentInterrupt

SpecParent == InitParent /\ [][NextParent]_vars

(***************************************************************************)
(* Properties of the worker's parent watcher.                              *)
(***************************************************************************)
\* C21: at every tick that finds the watcher dead the worker requests its
\* own shutdown and leaves the loop; shutdown is requested at no other
\* step and at most once; the clock moves only in the sleep of one
\* INTERVAL, which a dead watcher is found right after, so the request
\* comes within one INTERVAL of the death unless interrupted() ends the
\* loop first.
C21_ShutdownAtNextTick ==
  [][/\ (pc = "ww_check" /\ pc' # pc /\ LauncherDead)
          => (Len(shutdown_') = 1 /\ pc' = "ww_done")
     /\ (shutdown_' # shutdown_)
          => (pc = "ww_check" /\ LauncherDead /\ shutdown_ = <<>>)
     /\ (now' # now)
          => /\ pc = "ww_pause" /\ pc' = "ww_loop"
             /\ now' - now = getWorkerLimit("INTERVAL", watchdog_level)
     /\ (LauncherDead /\ pc \in {"ww_loop", "ww_check"} /\ pc' # pc)
          => pc' \in {"ww_check", "ww_done"}]_vars

\* The watcher died during a sleep and the tick after it has requested the
\* shutdown.
C21_Witness ==
  /\ pc = "ww_done"
  /\ Len(shutdown_) = 1
  /\ LauncherDead
  /\ ~interrupted_
  /\ now > StartTime

(***************************************************************************)
(* Further properties of the watch loop.                                   *)
(***************************************************************************)
\* C22: for the worker and for each extension path last_respawn_time never
\* decreases, whatever launches, respawns, foreign-pid resets and loop
\* starts happen.
C22_RespawnTimeMonotonic ==
  [][/\ state_'.last_respawn_time >= state_.last_respawn_time
     /\ \A q \in DOMAIN extension_states_ \cap DOMAIN extension_states_' :
          extension_states_'[q].last_respawn_time
            >= extension_states_[q].last_respawn_time]_vars

\* C23: restart_count never decreases: it grows by exactly 1 in each
\* createWorker call that finds the last respawn less than RESPAWN_LIMIT
\* seconds ago and no other step changes it (not the first launch, with
\* last_respawn_time 0, and not the respawn of an extension).
C23_RestartCountSteps ==
  [][IF pc = "cw_check" /\ pc' # pc /\ WorkerWithinRespawnLimit
       THEN worker_restarts_' = worker_restarts_ + 1
       ELSE worker_restarts_' = worker_restarts_]_vars

\* createWorker has just counted a restart of a worker that came back too
\* quickly, after a first launch that counted none.
C23_Witness ==
  /\ pc = "cw_backoff"
  /\ worker_restarts_ = 1
  /\ state_.last_respawn_time >= StartTime

(***************************************************************************)
(* getWorkerLimit as a function of its arguments and the watchdog_level    *)
(* flag.  result holds the limit type of the last call, cur the level      *)
(* passed (-1: none), status the value returned.                           *)
(***************************************************************************)
\* The limit types callers pass: those of the table and one it lacks.
CalledLimitTypes == LimitTypes \cup {"UNKNOWN_LIMIT"}

\* Lines 426-439 with the default of lines 431-434: level -1 stands for the
\* FLAGS_watchdog_level.
getWorkerLimitCall(name, level) ==
  getWorkerLimit(name, IF level = -1 THEN watchdog_level ELSE level)

\* What a call of getWorkerLimit leaves alone.
LimitRest ==
  <<pc, loops, use_worker_, watchdog_level, registry, fates_bound_, locked,
    host, child, todo, failing_extensions, row, probe, verdict, history>>

InitLimits ==
  /\ pc = "limits"
  /\ loops = 0
  /\ use_worker_ = TRUE
  /\ watchdog_level \in 0..MaxLevel
  /\ InitRegistry({})
  /\ InitRest

\* One call getWorkerLimit(name, level) or getWorkerLimit(name).
LimitCall ==
  /\ pc = "limits"
  /\ \E name \in CalledLimitTypes, level \in -1..MaxLevel :
       /\ result' = name
       /\ cur' = level
       /\ status' = getWorkerLimitCall(name, level)
  /\ UNCHANGED LimitRest

NextLimits == LimitCall

SpecLimits == InitLimits /\ [][NextLimits]_vars

\* The level a call works with: the one passed, the flag when none is.
EffectiveLevel == IF cur = -1 THEN watchdog_level ELSE cur

\* C24: getWorkerLimit returns the table entry of column `level` for levels
\* 0..3 and the entry of column 3 for every level above 3, for each of the
\* six limit types; 0 for a type the table lacks; without a level it works
\* with the watchdog_level flag.
C24_LimitTableLookup ==
  (pc = "limits" /\ result \in CalledLimitTypes)
    => /\ result \notin LimitTypes => status = 0
       /\ (result \in LimitTypes /\ EffectiveLevel \in 0..3)
            => status = kWatchdogLimits[result][EffectiveLevel + 1]
       /\ (result \in LimitTypes /\ EffectiveLevel > 3)
            => status = kWatchdogLimits[result][4]

\* A call without a level has been answered from the flag, which is above 3.
C24_Witness ==
  /\ pc = "limits"
  /\ result = "LATENCY_LIMIT"
  /\ cur = -1
  /\ watchdog_level > 3
  /\ status = 1

\* C25: whenever createWorker is about to call launchWorker while the
\* registry manages at least one extension, OSQUERY_EXTENSIONS has been set
\* in the environment.
C25_EnvSetBeforeLaunch ==
  (pc = "cw_launch" /\ DOMAIN extensions_ # {}) => env_extensions

\* createWorker stands before launchWorker with an extension managed and
\* the variable set.
C25_Witness ==
  /\ pc = "cw_launch"
  /\ DOMAIN extensions_ # {}
  /\ env_extensions

\* C26: when ok() is evaluated with no valid worker handle and no extension
\* left in the registry, the loop does not go round again.
C26_LoopEndsWithNothingManaged ==
  [][(/\ pc = "loop_cond"
      /\ pc' # pc
      /\ (worker_ = <<>> \/ worker_[1] = 0)
      /\ DOMAIN extensions_ = {})
     => pc' # "loop"]_vars

\* C27: a step of createWorker that ends it in error (the path query or the
\* permission test failing, or launchWorker returning no handle) records
\* EXIT_FAILURE as the shutdown code, starts no process, and leaves the
\* worker handle and the worker's last_respawn_time as they were.
C27_CreateWorkerErrorPaths ==
  [][(\/ pc = "cw_prepare" /\ pc' = "ext_begin"
      \/ pc = "cw_launch" /\ pc' = "exited")
     => /\ shutdown_' = <<EXIT_FAILURE>>
        /\ procs' = procs
        /\ worker_' = worker_
        /\ state_'.last_respawn_time = state_.last_respawn_time]_vars

\* launchWorker returned no handle while an earlier worker's respawn time
\* was on record: the watcher has shut down with EXIT_FAILURE.
C27_Witness ==
  /\ pc = "exited"
  /\ cur = 0
  /\ shutdown_ = <<EXIT_FAILURE>>
  /\ state_.last_respawn_time >= StartTime

\* C28: when createExtension finds unsafe permissions it starts no process
\* and its path joins the failed paths, which are kept until the removal
\* that erases them from the registry; when launchExtension returns no
\* handle the watcher shuts down at once with EXIT_FAILURE and the path is
\* not dropped.
C28_CreateExtensionErrorPaths ==
  [][/\ (pc = "ce_perms" /\ pc' = "ext_next")
          => /\ procs' = procs
             /\ extensions_' = extensions_
             /\ cur \in failing_extensions'
     /\ (pc # "remove") => failing_extensions \subseteq failing_extensions'
     /\ (pc = "remove" /\ pc' # pc)
          => \A q \in failing_extensions :
               q \notin DOMAIN extensions_' \cup DOMAIN extension_states_'
     /\ (pc = "ce_launch" /\ pc' # pc /\ procs' = procs)
          => /\ shutdown_' = <<EXIT_FAILURE>>
             /\ pc' = "exited"
             /\ cur \in DOMAIN extensions_'
             /\ cur \notin failing_extensions']_vars

\* createExtension has returned false for a path that was never launched
\* before, so the permission test is what refused it.
C28_Witness ==
  /\ pc = "ext_next"
  /\ cur \in failing_extensions
  /\ launch_count[cur] = 0

\* The part of one iteration of start() (lines 158-182) the watcher is in:
\* 1 the worker (watch, createWorker), 2 the extensions (watch,
\* createExtension), 3 the removal of failed paths, 4 the interval sleep,
\* 5 the loop condition; 0 before the iteration, 6 after the loop.
IterationPart ==
  CASE pc \in {"start", "loop"} -> 0
    [] pc \in {"fates_check", "cw_check", "cw_backoff", "cw_prepare", "cw_launch"} -> 1
    [] pc \in {"ext_begin", "ext_next", "ce_check", "ce_perms", "ce_launch"} -> 2
    [] pc = "remove" -> 3
    [] pc = "pause" -> 4
    [] pc = "loop_cond" -> 5
    [] pc \in {"done", "crashed", "exited"} -> 6
    [] OTHER -> IF cur = 0 THEN 1 ELSE 2

UnhealthyVerdicts == {"norow", "latency", "memory"}

\* C31: a child carries an unreaped terminate signal only inside stopChild,
\* and then it is the child watch was called on, its handle is valid, watch
\* has not read fatesBound() as true, and isChildSane (entered only for a
\* child reported alive) has returned false.
C31_KillOnlyUnhealthy ==
  \A n \in Pids :
    procs[n].st = "killed"
      => /\ pc = "cleanup"
         /\ n = child
         /\ ~fates_seen
         /\ verdict \in UnhealthyVerdicts

\* stopChild has signalled a worker whose sustained latency reached the limit.
C31_Witness ==
  /\ pc = "cleanup"
  /\ cur = 0
  /\ child \in Pids
  /\ procs[child].st = "killed"
  /\ verdict = "latency"

\* C32 as claimed: every terminate signal is reaped at once, and once the
\* worker has been signalled the watcher is in cleanupDefunctProcesses, at
\* the test of line 160 or entering createWorker, and nowhere else, until
\* createWorker has begun.
C32_KillCleanupCreate ==
  /\ \A n \in Pids : procs[n].st = "killed" => pc = "cleanup"
  /\ respawn_pending = "kill" => pc \in {"cleanup", "fates_check", "cw_check"}

\* C32 amended: as above, unless the test of line 160 read fatesBound() as
\* true; then the loop has ended and createWorker was not called.
C32_KillCleanupCreateUnlessFates ==
  /\ \A n \in Pids : procs[n].st = "killed" => pc = "cleanup"
  /\ respawn_pending = "kill"
       => \/ pc \in {"cleanup", "fates_check", "cw_check"}
          \/ pc = "done" /\ fates_seen /\ fates_bound_

\* The worker was signalled and reaped, and createWorker is being entered
\* with no extension examined yet in this iteration.
C32_Witness ==
  /\ pc = "cw_check"
  /\ respawn_pending = "kill"
  /\ DOMAIN extensions_ # {}
  /\ ~fates_bound_

\* The step of watch that takes the branch of line 206: fatesBound() was
\* false, the handle valid and the status PROCESS_EXITED.
ExitObservedStep ==
  /\ pc = "watch_decide"
  /\ pc' # pc
  /\ ~fates_bound_
  /\ child # 0
  /\ result = "exited"

\* C33: a watch that observes its child's exit stores the exit code and
\* returns true, so start() goes on to the extensions (after the worker) or
\* to the next extension (after an extension) and not to createWorker or
\* createExtension; the parts of an iteration never run backwards and no
\* path is examined twice in one iteration, so a respawn of that child has
\* to wait for the loop condition and the next iteration.
C33_ExitReturnsTrue ==
  [][/\ ExitObservedStep
          => /\ worker_status_' = status
             /\ pc' = IF cur = 0 THEN "ext_begin" ELSE "ext_next"
     /\ IterationPart' >= IterationPart \/ (pc = "loop_cond" /\ pc' = "loop")
     /\ (pc # "ext_begin") => todo' \subseteq todo
     /\ cur' \notin todo']_vars

\* watch has just returned true for a worker that exited with a code that
\* does not stop the watcher; the extensions come next.
C33_Witness ==
  /\ pc = "ext_begin"
  /\ cur = 0
  /\ respawn_pending = "exit"
  /\ worker_status_ = EXIT_FAILURE

\* C34: when the processes query yields no row for the child, isChildSane
\* returns false and has written neither a PerformanceState nor a handle of
\* the registry.
C34_MissingRowUnhealthy ==
  [][(pc = "sane_query" /\ verdict' = "norow")
     => /\ pc' = "kill"
        /\ state_' = state_
        /\ extension_states_' = extension_states_
        /\ worker_' = worker_
        /\ extensions_' = extensions_]_vars

\* isChildSane has returned false for want of a row, for a worker whose
\* state holds counters of an earlier check.
C34_Witness ==
  /\ pc = "kill"
  /\ cur = 0
  /\ verdict = "norow"
  /\ state_.sustained_latency > 0
  /\ state_.last_respawn_time >= StartTime

\* C35: start() enters the loop body whatever interrupted() says; the loop
\* condition of line 182 is reached from the interval sleep only, and the
\* loop ends only at that condition or at the break of line 162.
C35_BodyRunsFirst ==
  [][/\ (pc = "start" /\ pc' # pc) => pc' = "loop"
     /\ (pc = "loop" /\ pc' # pc) => IterationPart' \in {1, 2, 6} /\ pc' # "done"
     /\ (pc' = "loop_cond" /\ pc # pc') => pc = "pause"
     /\ (pc' = "done" /\ pc # pc') => pc \in {"loop_cond", "fates_check"}]_vars

\* A worker was launched in the first iteration although the host had
\* interrupted the runnable before start() was called.
C35_Witness ==
  /\ loops = 0
  /\ pc = "ext_begin"
  /\ interrupted_
  /\ WorkerAlive
  /\ state_.last_respawn_time >= StartTime

\* C36: after a check of the watcher's own child, sustained_latency is
\* above 0 exactly when the sample of that check was truly above the stored
\* previous one by more than UTILIZATION_LIMIT for user or system time; a
\* sample below the stored one leaves it at 0.
C36_LatencyCountsTrueExcess ==
  (pc = "sanity" /\ verdict \in {"healthy", "latency", "memory"})
    => (state_.sustained_latency > 0 <=> cpu_hist.run > 0)

kAwsRegions ==
  ("us-east-1" :> "US_EAST_1") @@ ("us-west-1" :> "US_WEST_1") @@
  ("us-west-2" :> "US_WEST_2") @@ ("eu-west-1" :> "EU_WEST_1") @@
  ("eu-central-1" :> "EU_CENTRAL_1") @@ ("ap-southeast-1" :> "AP_SOUTHEAST_1") @@
  ("ap-southeast-2" :> "AP_SOUTHEAST_2") @@ ("ap-northeast-1" :> "AP_NORTHEAST_1") @@
  ("ap-northeast-2" :> "AP_NORTHEAST_2") @@ ("sa-east-1" :> "SA_EAST_1")

kDefaultAWSRegion == "US_EAST_1"

\* Values of the aws_region flag: unset, two known names, the default's
\* name, and two names the map lacks.
RegionFlags == {"", "us-west-2", "eu-central-1", "us-east-1", "mars-1", "US_WEST_2"}

\* Values of the aws_profile_name flag.
ProfileNames == {"", "default", "dev"}

\* The profile file: read_ini throws (readable is FALSE), or yields a tree of
\* sections; a section is <<>> (no "region" key) or <<the value of its
\* "region" key>>.
Unreadable == [readable |-> FALSE, tree |-> <<>>]

ProfileSections == {"default", "profile dev", "dev"}

ProfileTrees ==
  UNION {[secs -> {<<>>, <<"eu-west-1">>, <<"nowhere">>}] :
           secs \in SUBSET ProfileSections}

ProfileFiles ==
  {Unreadable} \cup {[readable |-> TRUE, tree |-> t] : t \in ProfileTrees}

\* The region variable of the caller before the call.
RegionsBefore == {"US_EAST_1", "AP_NORTHEAST_1"}

RegionInputs ==
  [aws_region : RegionFlags, aws_profile_name : ProfileNames,
   file : ProfileFiles, before : RegionsBefore]

\* Lines 187-192: the section the profile name selects.
ProfileKey(name) ==
  IF name # "" /\ name # "default" THEN "profile " \o name ELSE "default"

\* Lines 175-213, on the caller's region: the Status code and the region.
getAWSRegionFromProfile(region, name, file) ==
  IF ~file.readable THEN [code |-> 1, region |-> region]
  ELSE IF ProfileKey(name) \notin DOMAIN file.tree
    THEN [code |-> 1, region |-> region]
  ELSE IF Len(file.tree[ProfileKey(name)]) = 0
    THEN [code |-> 1, region |-> region]
  ELSE IF file.tree[ProfileKey(name)][1] \in DOMAIN kAwsRegions
    THEN [code |-> 0, region |-> kAwsRegions[file.tree[ProfileKey(name)][1]]]
  ELSE [code |-> 1, region |-> region]

\* Lines 215-239 with the default taken on every failed lookup.
getAWSRegionDefaultsOnError(region, flag, name, file) ==
  IF flag # ""
    THEN IF flag \in DOMAIN kAwsRegions
           THEN [code |-> 0, region |-> kAwsRegions[flag]]
           ELSE [code |-> 1, region |-> region]
    ELSE LET s == getAWSRegionFromProfile(region, name, file)
         IN  IF s.code = 0 THEN s
             ELSE [code |-> 0, region |-> kDefaultAWSRegion]

\* Lines 215-239.
getAWSRegion(region, flag, name, file) ==
  IF flag # ""
    THEN IF flag \in DOMAIN kAwsRegions
           THEN [code |-> 0, region |-> kAwsRegions[flag]]
           ELSE [code |-> 1, region |-> region]
    ELSE LET s == getAWSRegionFromProfile(region, name, file)
         IN  IF s.code = 0 \/ name # "" THEN s
             ELSE [code |-> 0, region |-> kDefaultAWSRegion]

\* What a call of getAWSRegion leaves alone.
RegionRest ==
  <<loops, use_worker_, watchdog_level, registry, fates_bound_, locked, host,
    child, cur, todo, failing_extensions, result, status, row, verdict,
    history>>

InitRegion ==
  /\ pc = "region"
  /\ loops = 0
  /\ use_worker_ = TRUE
  /\ watchdog_level = 0
  /\ InitRegistry({})
  /\ interrupted_ = FALSE
  /\ now = StartTime
  /\ procs = [n \in Pids |-> NoProc]
  /\ env_extensions = FALSE
  /\ shutdown_ = <<>>
  /\ child = 0
  /\ cur = 0
  /\ todo = {}
  /\ failing_extensions = {}
  /\ result = "error"
  /\ status = 0
  /\ row \in RegionInputs
  /\ probe = [code |-> -1, region |-> row.before]
  /\ verdict = "none"
  /\ cpu_hist = NoCpuHist
  /\ mem_hist = NoMemHist
  /\ observed_exit = NoExit
  /\ respawn_pending = "none"
  /\ fates_seen = FALSE
  /\ launch_count = [q \in Paths |-> 0]

\* One call getAWSRegion(region).
RegionCall ==
  /\ pc = "region"
  /\ probe' = getAWSRegion(row.before, row.aws_region, row.aws_profile_name,
                           row.file)
  /\ pc' = "region_done"
  /\ UNCHANGED RegionRest

NextRegion == RegionCall

SpecRegion == InitRegion /\ [][NextRegion]_vars

\* The profile file has a section for the profile name whose "region" key
\* names a known region.
ProfileHasRegion ==
  /\ row.file.readable
  /\ ProfileKey(row.aws_profile_name) \in DOMAIN row.file.tree
  /\ Len(row.file.tree[ProfileKey(row.aws_profile_name)]) = 1
  /\ row.file.tree[ProfileKey(row.aws_profile_name)][1] \in DOMAIN kAwsRegions

\* C38: getAWSRegion takes a non-empty aws_region flag if the map knows it
\* and fails otherwise, whatever the profile says; with an empty flag it
\* takes the profile's region when the profile has one; when it has none the
\* call fails if aws_profile_name is set and succeeds with US_EAST_1 if not;
\* a call that fails leaves the caller's region as it was.
C38_RegionPrecedence ==
  pc = "region_done"
    => /\ (row.aws_region # "" /\ row.aws_region \in DOMAIN kAwsRegions)
            => probe = [code |-> 0, region |-> kAwsRegions[row.aws_region]]
       /\ (row.aws_region # "" /\ row.aws_region \notin DOMAIN kAwsRegions)
            => probe.code = 1
       /\ (row.aws_region = "" /\ ProfileHasRegion)
            => probe = [code |-> 0,
                        region |-> kAwsRegions[
                          row.file.tree[ProfileKey(row.aws_profile_name)][1]]]
       /\ (row.aws_region = "" /\ ~ProfileHasRegion /\ row.aws_profile_name # "")
            => probe.code = 1
       /\ (row.aws_region = "" /\ ~ProfileHasRegion /\ row.aws_profile_name = "")
            => probe = [code |-> 0, region |-> kDefaultAWSRegion]
       /\ probe.code = 1 => probe.region = row.before

\* With no flag and no profile name, a profile file that cannot be read
\* has led to the default region in place of the caller's.
C38_Witness ==
  /\ pc = "region_done"
  /\ row.aws_region = ""
  /\ row.aws_profile_name = ""
  /\ ~row.file.readable
  /\ row.before # kDefaultAWSRegion
  /\ probe = [code |-> 0, region |-> kDefaultAWSRegion]

====
